---------------------------- MODULE Spec2Model ----------------------------
(***************************************************************************)
(* A model of src/app.py: the plain-text quiz parser (parse_txt_file), the *)
(* embedded-data extractor (parse_html_file), the serializer               *)
(* (strip_html, questions_to_txt), the upload handler with its transient  *)
(* store, and the preview, download_txt, generate and upload_image         *)
(* handlers as concurrent requests on that store.                          *)
(*                                                                         *)
(* Text is modelled by TLA+ strings; a character is a string of length 1   *)
(* and every regular expression of the source is an operator that walks    *)
(* the characters the way the expression does.                             *)
(***************************************************************************)
EXTENDS Integers, Sequences, FiniteSets, TLC

(***************************************************************************)
(* Characters and character classes                                        *)
(***************************************************************************)
Ch(s, i) == IF i >= 1 /\ i <= Len(s) THEN SubSeq(s, i, i) ELSE ""

From(s, i) == IF i > Len(s) THEN "" ELSE SubSeq(s, i, Len(s))

UpperAlpha == "ABCDEFGHIJKLMNOPQRSTUVWXYZ"

LowerAlpha == "abcdefghijklmnopqrstuvwxyz"

UpperSet == { SubSeq(UpperAlpha, i, i) : i \in 1..26 }

Digit == {"0", "1", "2", "3", "4", "5", "6", "7", "8", "9"}

\* the characters \s matches, among those the model's texts use
WhiteSpace == {" ", "\t", "\n", "\r", "\f"}

\* the letters [a-e] matches under re.IGNORECASE
LetterAE == {"a", "b", "c", "d", "e", "A", "B", "C", "D", "E"}

LowerOf == [c \in UpperSet |->
              LET i == CHOOSE k \in 1..26 : SubSeq(UpperAlpha, k, k) = c
              IN  SubSeq(LowerAlpha, i, i)]

\* str.lower() on one character
lower(c) == IF c \in UpperSet THEN LowerOf[c] ELSE c

\* re.match(r'^<pat>', s, re.IGNORECASE) for a literal, lower-case pat
StartsWithCI(s, pat) ==
    /\ Len(s) >= Len(pat)
    /\ \A i \in 1..Len(pat) : lower(SubSeq(s, i, i)) = SubSeq(pat, i, i)

\* \s* from position i: the first position at or after i holding no whitespace
SkipWs[s \in STRING, i \in Nat] ==
    IF i <= Len(s) /\ SubSeq(s, i, i) \in WhiteSpace THEN SkipWs[s, i + 1] ELSE i

\* \d* from position i
SkipDigits[s \in STRING, i \in Nat] ==
    IF i <= Len(s) /\ SubSeq(s, i, i) \in Digit THEN SkipDigits[s, i + 1] ELSE i

RStripEnd[s \in STRING, j \in Nat] ==
    IF j >= 1 /\ SubSeq(s, j, j) \in WhiteSpace THEN RStripEnd[s, j - 1] ELSE j

\* str.strip()
strip(s) ==
    LET i == SkipWs[s, 1]
        j == RStripEnd[s, Len(s)]
    IN  IF i > j THEN "" ELSE SubSeq(s, i, j)

\* the first position at or after i holding character c, or 0
FindChar[s \in STRING, c \in STRING, i \in Nat] ==
    IF i > Len(s) THEN 0
    ELSE IF SubSeq(s, i, i) = c THEN i
    ELSE FindChar[s, c, i + 1]

\* str.split('\n'); a function, so that the rest of the text is a value
SplitNl[s \in STRING] ==
    LET p == FindChar[s, "\n", 1]
    IN  IF p = 0 THEN <<s>>
        ELSE <<SubSeq(s, 1, p - 1)>> \o SplitNl[From(s, p + 1)]

RECURSIVE Join(_, _)
\* sep.join(parts)
Join(parts, sep) ==
    IF Len(parts) = 0 THEN ""
    ELSE IF Len(parts) = 1 THEN parts[1]
    ELSE parts[1] \o sep \o Join(Tail(parts), sep)


(***************************************************************************)
(* Block Segmenter: re.split(r'\n\s*\n|(?=Q\.\d+|\d+\.\s*[A-Z])', ...)     *)
(***************************************************************************)
\* the last newline among positions i..j-1, or 0
LastNl[s \in STRING, i \in Nat, j \in Nat] ==
    IF j - 1 < i THEN 0
    ELSE IF SubSeq(s, j - 1, j - 1) = "\n" THEN j - 1
    ELSE LastNl[s, i, j - 1]

\* the lookahead (?=Q\.\d+|\d+\.\s*[A-Z]) at position p (case-sensitive)
QuestionAhead(s, p) ==
    \/ /\ Ch(s, p) = "Q"
       /\ Ch(s, p + 1) = "."
       /\ Ch(s, p + 2) \in Digit
    \/ LET j == SkipDigits[s, p]
       IN  /\ j > p
           /\ Ch(s, j) = "."
           /\ Ch(s, SkipWs[s, j + 1]) \in UpperSet

\* The split pattern tried at position p: the position after the match, p
\* itself for the empty (lookahead) match, 0 for no match.  \n\s*\n is greedy:
\* it ends at the last newline of the whitespace run that follows the first.
SplitMatchEnd(s, p) ==
    IF Ch(s, p) = "\n"
    THEN LET q == LastNl[s, p + 1, SkipWs[s, p + 1]]
         IN  IF q = 0 THEN 0 ELSE q + 1
    ELSE IF QuestionAhead(s, p) THEN p ELSE 0

\* the leftmost position at or after p where the pattern matches, or 0; an
\* empty match at the position `banned` (right after an empty match) is refused
SplitSearch[s \in STRING, p \in Nat, banned \in Nat] ==
    IF p > Len(s) THEN 0
    ELSE IF SplitMatchEnd(s, p) # 0 /\ ~(SplitMatchEnd(s, p) = p /\ p = banned)
    THEN p
    ELSE SplitSearch[s, p + 1, banned]

\* re.split's loop: `last` is where the pending piece starts
SplitFrom[s \in STRING, last \in Nat, banned \in Nat] ==
    LET p == SplitSearch[s, last, banned]
    IN  IF p = 0 THEN <<From(s, last)>>
        ELSE LET e == SplitMatchEnd(s, p)
             IN  <<SubSeq(s, last, p - 1)>>
                   \o SplitFrom[s, e, IF e = p THEN p ELSE 0]

\* blocks = re.split(..., content.strip())
SplitBlocks(content) == SplitFrom[strip(content), 1, 0]

\* [line.strip() for line in parts if line.strip()]
StripNonBlank[parts \in Seq(STRING)] ==
    IF Len(parts) = 0 THEN <<>>
    ELSE IF strip(parts[1]) = "" THEN StripNonBlank[Tail(parts)]
    ELSE <<strip(parts[1])>> \o StripNonBlank[Tail(parts)]

\* lines = [line.strip() for line in block.split('\n') if line.strip()]
BlockLines(block) == StripNonBlank[SplitNl[strip(block)]]

(***************************************************************************)
(* Line classification: the regular expressions of parse_txt_file          *)
(***************************************************************************)
\* ^(?:\d+\.\s*|Q\.\d+\s+) : the position after the numbering prefix, 0 if none
HeaderEnd(line) ==
    LET d == SkipDigits[line, 1]
        k == SkipDigits[line, 3]
    IN  IF d > 1 /\ Ch(line, d) = "." THEN SkipWs[line, d + 1]
        ELSE IF /\ Ch(line, 1) = "Q"
                /\ Ch(line, 2) = "."
                /\ k > 3
                /\ SkipWs[line, k] > k
        THEN SkipWs[line, k]
        ELSE 0

\* ^[a-e]\)\s*|^\([a-e]\)\s*|^[a-e]\.\s*  (re.IGNORECASE)
OptionStart(line) ==
    \/ Ch(line, 1) \in LetterAE /\ Ch(line, 2) = ")"
    \/ Ch(line, 1) = "(" /\ Ch(line, 2) \in LetterAE /\ Ch(line, 3) = ")"
    \/ Ch(line, 1) \in LetterAE /\ Ch(line, 2) = "."

\* option_pattern = ^([a-e])[\)\.]\s*|^\(([a-e])\)\s*  (re.IGNORECASE)
option_pattern(line) ==
    \/ Ch(line, 1) \in LetterAE /\ Ch(line, 2) \in {")", "."}
    \/ Ch(line, 1) = "(" /\ Ch(line, 2) \in LetterAE /\ Ch(line, 3) = ")"

\* ^Correct|^Answer:|^ex:  (re.IGNORECASE)
StopLine(line) ==
    \/ StartsWithCI(line, "correct")
    \/ StartsWithCI(line, "answer:")
    \/ StartsWithCI(line, "ex:")

\* ^[a-e]\)|^\([a-e]\)|^[a-e]\.|^Correct|^Answer:|^ex:  (re.IGNORECASE)
NotContinuation(line) ==
    \/ Ch(line, 1) \in LetterAE /\ Ch(line, 2) = ")"
    \/ Ch(line, 1) = "(" /\ Ch(line, 2) \in LetterAE /\ Ch(line, 3) = ")"
    \/ Ch(line, 1) \in LetterAE /\ Ch(line, 2) = "."
    \/ StartsWithCI(line, "correct")
    \/ StartsWithCI(line, "answer:")
    \/ StartsWithCI(line, "ex:")

\* ^Correct\s*(?:option)?\s*[:-]  (re.IGNORECASE)
CorrectMarker(line) ==
    /\ StartsWithCI(line, "correct")
    /\ LET i == SkipWs[line, 8]
           j == IF StartsWithCI(From(line, i), "option") THEN SkipWs[line, i + 6]
                ELSE i
       IN  Ch(line, j) \in {":", "-"}

\* ^Answer\s*[:-]  (re.IGNORECASE)
AnswerMarker(line) ==
    /\ StartsWithCI(line, "answer")
    /\ Ch(line, SkipWs[line, 7]) \in {":", "-"}

RECURSIVE SepLetter(_, _)
\* re.search(r'[:-]\s*([a-e])', line, re.IGNORECASE) from position i:
\* group(1) of the leftmost match, "" when there is none
SepLetter(line, i) ==
    IF i > Len(line) THEN ""
    ELSE IF /\ SubSeq(line, i, i) \in {":", "-"}
            /\ Ch(line, SkipWs[line, i + 1]) \in LetterAE
    THEN Ch(line, SkipWs[line, i + 1])
    ELSE SepLetter(line, i + 1)

RECURSIVE ParenLetter(_, _)
\* re.search(r'\(([a-e])\)', line, re.IGNORECASE) from position i
ParenLetter(line, i) ==
    IF i > Len(line) THEN ""
    ELSE IF /\ SubSeq(line, i, i) = "("
            /\ Ch(line, i + 1) \in LetterAE
            /\ Ch(line, i + 2) = ")"
    THEN Ch(line, i + 1)
    ELSE ParenLetter(line, i + 1)

\* a plausible fault: the mapping has no key e, which then takes the default
answer_map_four(ans) ==
    CASE ans = "a" -> "1"
      [] ans = "b" -> "2"
      [] ans = "c" -> "3"
      [] ans = "d" -> "4"
      [] OTHER -> "1"

\* a plausible fault: the mapping counts from zero, as correctIndex does
answer_map_zero(ans) ==
    CASE ans = "a" -> "0"
      [] ans = "b" -> "1"
      [] ans = "c" -> "2"
      [] ans = "d" -> "3"
      [] ans = "e" -> "4"
      [] OTHER -> "1"

\* answer_map = {'a': '1', 'b': '2', 'c': '3', 'd': '4', 'e': '5'};
\* answer_map.get(ans, '1')
answer_map(ans) ==
    CASE ans = "a" -> "1"
      [] ans = "b" -> "2"
      [] ans = "c" -> "3"
      [] ans = "d" -> "4"
      [] ans = "e" -> "5"
      [] OTHER -> "1"

\* ^ex:  (re.IGNORECASE)
ExLine(line) == StartsWithCI(line, "ex:")

\* re.sub(r'^ex:\s*', '', line, flags=re.IGNORECASE) on a line that matches ^ex:
ExText(line) == From(line, SkipWs[line, 4])

(***************************************************************************)
(* parse_txt_file: the per-block parser.  A record b holds the locals of   *)
(* one iteration of `for block in blocks`; current_line is 0-based as in   *)
(* the source, so the line it designates is b.lines[b.current_line + 1].   *)
(***************************************************************************)
\* the dict built for each block (the canonical Question record)
NewQuestion ==
    [question |-> "",
     option_1 |-> "", option_2 |-> "", option_3 |-> "", option_4 |-> "",
     option_5 |-> "",
     answer |-> "",
     solution_text |-> "",
     question_image |-> "",
     option_image_1 |-> "", option_image_2 |-> "", option_image_3 |-> "",
     option_image_4 |-> "", option_image_5 |-> "",
     solution_image |-> "",
     correct_score |-> "3",
     negative_score |-> "1",
     section |-> ""]

\* f"option_{n}"
OptionKey(n) ==
    CASE n = 1 -> "option_1"
      [] n = 2 -> "option_2"
      [] n = 3 -> "option_3"
      [] n = 4 -> "option_4"
      [] n = 5 -> "option_5"

\* the option cap of the options loop (option_count < 5)
MaxOptions == 5

\* the minimum number of non-blank lines of a block (len(lines) < 3: continue)
MinLines == 3

CurLine(b) == b.lines[b.current_line + 1]

StartBlock(ls) ==
    [lines |-> ls, current_line |-> 0, question_lines |-> <<>>,
     question |-> NewQuestion, option_count |-> 0]

\* the if/else on the numbering prefix of lines[0]
HeaderStep(b) ==
    IF HeaderEnd(b.lines[1]) # 0
    THEN [b EXCEPT !.question_lines = <<From(b.lines[1], HeaderEnd(b.lines[1]))>>,
                   !.current_line = 1]
    ELSE [b EXCEPT !.question_lines = <<>>]

\* the condition of both question-text while loops
QuestionCond(b) ==
    /\ b.current_line < Len(b.lines)
    /\ ~OptionStart(CurLine(b))

QuestionStep(b) ==
    [b EXCEPT !.question_lines = Append(@, CurLine(b)),
              !.current_line = @ + 1]

\* question["question"] = '<br>'.join(question_lines); option_count = 0
JoinQuestion(b) ==
    [b EXCEPT !.question.question = Join(b.question_lines, "<br>"),
              !.option_count = 0]

\* the condition of the options while loop
OptionsCond(b) ==
    /\ b.current_line < Len(b.lines)
    /\ b.option_count < MaxOptions
    /\ (option_pattern(CurLine(b)) \/ ~StopLine(CurLine(b)))

\* a plausible fault: the line after an option line is absorbed whatever it is
OptionStepAbsorb(b) ==
    IF option_pattern(CurLine(b))
    THEN LET next == b.current_line + 1
             cont == next < Len(b.lines)
             option_text == IF cont THEN CurLine(b) \o "<br>" \o b.lines[next + 1]
                            ELSE CurLine(b)
         IN  [b EXCEPT !.question[OptionKey(b.option_count + 1)] = option_text,
                       !.option_count = @ + 1,
                       !.current_line = IF cont THEN next + 1 ELSE next]
    ELSE [b EXCEPT !.current_line = @ + 1]

\* one iteration of the options loop: the marker is kept in the option text
OptionStep(b) ==
    IF option_pattern(CurLine(b))
    THEN LET next == b.current_line + 1
             cont == /\ next < Len(b.lines)
                     /\ ~NotContinuation(b.lines[next + 1])
             option_text == IF cont THEN CurLine(b) \o "<br>" \o b.lines[next + 1]
                            ELSE CurLine(b)
         IN  [b EXCEPT !.question[OptionKey(b.option_count + 1)] = option_text,
                       !.option_count = @ + 1,
                       !.current_line = IF cont THEN next + 1 ELSE next]
    ELSE [b EXCEPT !.current_line = @ + 1]

\* the letter an answer line names ("" when the line sets no answer)
AnswerLetter(line) ==
    IF CorrectMarker(line) THEN lower(SepLetter(line, 1))
    ELSE IF AnswerMarker(line)
    THEN IF ParenLetter(line, 1) # "" THEN lower(ParenLetter(line, 1))
         ELSE lower(SepLetter(line, 1))
    ELSE ""

AnswerCond(b) == b.current_line < Len(b.lines)

\* a plausible fault: the first marker line wins, later ones are ignored
AnswerStepFirst(b) ==
    IF AnswerLetter(CurLine(b)) # "" /\ b.question.answer = ""
    THEN [b EXCEPT !.question.answer = answer_map(AnswerLetter(CurLine(b))),
                   !.current_line = @ + 1]
    ELSE [b EXCEPT !.current_line = @ + 1]

\* a plausible fault: a line that sets the answer advances the cursor twice
AnswerStepTwice(b) ==
    IF AnswerLetter(CurLine(b)) # ""
    THEN [b EXCEPT !.question.answer = answer_map(AnswerLetter(CurLine(b))),
                   !.current_line = @ + 2]
    ELSE [b EXCEPT !.current_line = @ + 1]

\* one iteration of the answer while loop
AnswerStep(b) ==
    IF AnswerLetter(CurLine(b)) # ""
    THEN [b EXCEPT !.question.answer = answer_map(AnswerLetter(CurLine(b))),
                   !.current_line = @ + 1]
    ELSE [b EXCEPT !.current_line = @ + 1]

RECURSIVE SolutionLines(_)
\* solution_lines: every ^ex: line of the block, prefix removed
SolutionLines(ls) ==
    IF Len(ls) = 0 THEN <<>>
    ELSE IF ExLine(ls[1]) THEN <<ExText(ls[1])>> \o SolutionLines(Tail(ls))
    ELSE SolutionLines(Tail(ls))

\* a plausible fault: the explanation scan starts after the question text
ExplanationStepRest(b) ==
    [b EXCEPT !.question.solution_text =
        Join(SolutionLines(SubSeq(b.lines, Len(b.question_lines) + 1, Len(b.lines))),
             "<br>")]

\* question["solution_text"] = '<br>'.join(solution_lines)
ExplanationStep(b) ==
    [b EXCEPT !.question.solution_text = Join(SolutionLines(b.lines), "<br>")]

\* a plausible fault: the retention test looks at the question text only
RetainedQuestionOnly(q) == q.question # ""

\* if question["question"] and (question["option_1"] or question["option_2"])
Retained(q) ==
    /\ q.question # ""
    /\ (q.option_1 # "" \/ q.option_2 # "")

RECURSIVE RunQuestion(_)
RunQuestion(b) ==
    IF QuestionCond(b) THEN RunQuestion(QuestionStep(b)) ELSE b

RECURSIVE RunOptions(_)
RunOptions(b) ==
    IF OptionsCond(b) THEN RunOptions(OptionStep(b)) ELSE b

RECURSIVE RunAnswer(_)
RunAnswer(b) ==
    IF AnswerCond(b) THEN RunAnswer(AnswerStep(b)) ELSE b

\* the body of `for block in blocks` for a block of at least MinLines lines
ParseBlock(ls) ==
    ExplanationStep(
      RunAnswer(RunOptions(JoinQuestion(RunQuestion(HeaderStep(StartBlock(ls)))))))

RECURSIVE ParseBlocks(_)
ParseBlocks(bs) ==
    IF Len(bs) = 0 THEN <<>>
    ELSE LET ls == BlockLines(bs[1])
             q == ParseBlock(ls).question
         IN  IF strip(bs[1]) = "" \/ Len(ls) < MinLines
             THEN ParseBlocks(Tail(bs))
             ELSE IF Retained(q)
             THEN <<q>> \o ParseBlocks(Tail(bs))
             ELSE ParseBlocks(Tail(bs))

parse_txt_file(content) == ParseBlocks(SplitBlocks(content))

(***************************************************************************)
(* Markup Stripper and Text Serializer: strip_html, questions_to_txt       *)
(***************************************************************************)
DigitChars == "0123456789"

RECURSIVE NatToStr(_)
NatToStr(n) ==
    IF n < 10 THEN SubSeq(DigitChars, n + 1, n + 1)
    ELSE NatToStr(n \div 10) \o SubSeq(DigitChars, (n % 10) + 1, (n % 10) + 1)

\* str(n) of a Python int
IntToStr(n) == IF n < 0 THEN "-" \o NatToStr(0 - n) ELSE NatToStr(n)

DigitValue(c) == (CHOOSE k \in 1..10 : SubSeq(DigitChars, k, k) = c) - 1

RECURSIVE DigitsValue(_, _)
\* the value of a string of decimal digits, acc being the value read so far
DigitsValue(s, acc) ==
    IF s = "" THEN acc
    ELSE DigitsValue(Tail(s), acc * 10 + DigitValue(Head(s)))

\* int(s) of a str: surrounding whitespace, an optional sign, decimal digits;
\* anything else raises ValueError (ok = FALSE).  Digit-group underscores and
\* non-ASCII digits, which int() also takes, are outside the model's texts.
PyInt(s) ==
    LET t == strip(s)
        signed == Ch(t, 1) \in {"+", "-"}
        d == IF signed THEN From(t, 2) ELSE t
    IN  IF d # "" /\ SkipDigits[d, 1] > Len(d)
        THEN [ok |-> TRUE,
              v |-> IF Ch(t, 1) = "-" THEN 0 - DigitsValue(d, 0)
                    ELSE DigitsValue(d, 0)]
        ELSE [ok |-> FALSE, v |-> 0]

\* the printable ASCII characters of code points 32..95 and 97..126 (a TLA+
\* string cannot hold the grave accent, code point 96)
AsciiLow ==
    " !\"#$%&'()*+,-./0123456789:;<=>?@ABCDEFGHIJKLMNOPQRSTUVWXYZ[\\]^_"

AsciiHigh == "abcdefghijklmnopqrstuvwxyz{|}~"

\* the largest code point chr() takes (0x10FFFF); beyond it chr raises ValueError
MaxCodePoint == 1114111

\* chr(c) for a code point chr() takes.  The code points outside the two
\* ranges above have no character in the alphabet of the model (value NoChar);
\* no input of the model produces one.
NoChar == "\\x"

chr(c) ==
    IF c >= 32 /\ c <= 95 THEN SubSeq(AsciiLow, c - 31, c - 31)
    ELSE IF c >= 97 /\ c <= 126 THEN SubSeq(AsciiHigh, c - 96, c - 96)
    ELSE NoChar

RECURSIVE StripTags(_)
\* re.sub(r'<[^>]+>', ' ', text)
StripTags(s) ==
    IF s = "" THEN ""
    ELSE IF Head(s) = "<" /\ FindChar[s, ">", 2] >= 3
    THEN " " \o StripTags(From(s, FindChar[s, ">", 2] + 1))
    ELSE Head(s) \o StripTags(Tail(s))

\* the named character references the model's texts may hold
Entities ==
    << <<"amp", "&">>, <<"lt", "<">>, <<"gt", ">">>, <<"quot", "\"">> >>

StartsWith(s, pat) == Len(s) >= Len(pat) /\ SubSeq(s, 1, Len(pat)) = pat

RECURSIVE Unescape(_)
\* html.unescape: a reference is replaced by its character, its semicolon
\* being optional for these names
Unescape(s) ==
    IF s = "" THEN ""
    ELSE IF Head(s) = "&" /\ \E k \in 1..Len(Entities) : StartsWith(Tail(s), Entities[k][1])
    THEN LET k == CHOOSE k \in 1..Len(Entities) : StartsWith(Tail(s), Entities[k][1])
             rest == From(s, 2 + Len(Entities[k][1]))
         IN  Entities[k][2] \o Unescape(IF Ch(rest, 1) = ";" THEN Tail(rest) ELSE rest)
    ELSE Head(s) \o Unescape(Tail(s))

RECURSIVE CollapseWs(_)
\* re.sub(r'\s+', ' ', text)
CollapseWs(s) ==
    IF s = "" THEN ""
    ELSE IF Head(s) \in WhiteSpace THEN " " \o CollapseWs(From(s, SkipWs[s, 1]))
    ELSE Head(s) \o CollapseWs(Tail(s))

strip_html(text) ==
    IF text = "" THEN "" ELSE strip(CollapseWs(Unescape(StripTags(text))))

\* opt_letter = chr(96 + opt_num)
OptionLetter(opt_num) == chr(96 + opt_num)

RECURSIVE OptionLinesPacked(_, _)
\* a plausible fault: the letters follow the order of emission, so an empty
\* slot shifts the letters of the later options
OptionLinesPacked(q, opt_num) ==
    IF opt_num > MaxOptions THEN <<>>
    ELSE IF q[OptionKey(opt_num)] # ""
    THEN <<chr(96 + Cardinality({ j \in 1..opt_num : q[OptionKey(j)] # "" }))
             \o ") " \o strip_html(q[OptionKey(opt_num)])>>
           \o OptionLinesPacked(q, opt_num + 1)
    ELSE OptionLinesPacked(q, opt_num + 1)

RECURSIVE OptionLines(_, _)
\* for opt_num in range(opt_num, 6): the line of every non-empty option slot
OptionLines(q, opt_num) ==
    IF opt_num > MaxOptions THEN <<>>
    ELSE IF q[OptionKey(opt_num)] # ""
    THEN <<OptionLetter(opt_num) \o ") " \o strip_html(q[OptionKey(opt_num)])>>
           \o OptionLines(q, opt_num + 1)
    ELSE OptionLines(q, opt_num + 1)

\* a plausible fault: the letter is counted from chr(97), one slot too far
AnswerLetterNext(ans) ==
    IF /\ PyInt(ans).ok
       /\ 97 + PyInt(ans).v >= 0
       /\ 97 + PyInt(ans).v <= MaxCodePoint
    THEN chr(97 + PyInt(ans).v)
    ELSE ans

\* ans_letter: chr(96 + int(ans)), or ans itself when int() or chr() raises
\* ValueError
AnswerLetterOf(ans) ==
    IF /\ PyInt(ans).ok
       /\ 96 + PyInt(ans).v >= 0
       /\ 96 + PyInt(ans).v <= MaxCodePoint
    THEN chr(96 + PyInt(ans).v)
    ELSE ans

\* the `if ans:` lines
AnswerLines(q) ==
    IF q.answer # "" THEN <<"Correct option:-" \o AnswerLetterOf(q.answer)>>
    ELSE <<>>

ExplanationLine(q) ==
    IF strip_html(q.solution_text) # ""
    THEN "ex: " \o strip_html(q.solution_text)
    ELSE "ex: No explanation provided."

\* the lines one question adds, idx being its 1-based position
QuestionLines(q, idx) ==
    <<IntToStr(idx) \o ". " \o strip_html(q.question)>>
      \o OptionLines(q, 1) \o AnswerLines(q) \o <<ExplanationLine(q), "">>

RECURSIVE AllLines(_, _)
AllLines(qs, idx) ==
    IF idx > Len(qs) THEN <<>>
    ELSE QuestionLines(qs[idx], idx) \o AllLines(qs, idx + 1)

questions_to_txt(qs) == Join(AllLines(qs, 1), "\n")

(***************************************************************************)
(* parse_html_file.  The HTML text is seen through the two things the code *)
(* reads from it: what re.search finds for each variable and what          *)
(* json.loads makes of the matched literal.  A source is                   *)
(*   [found |-> b, decodes |-> b, value |-> v]                             *)
(* found: the regular expression matches; decodes: json.loads returns      *)
(* (FALSE: it raises); value: the decoded JSON value.                      *)
(* JSON values are tagged records; a JSON object is JDict(d), d a function *)
(* from its keys.  In the inputs of the model the text-valued keys hold    *)
(* JSON strings, written as plain strings; answer, correctIndex, options   *)
(* and questions hold tagged values of any type.                           *)
(***************************************************************************)
JStr(x) == [t |-> "str", s |-> x]

JInt(k) == [t |-> "int", n |-> k]

JNull == [t |-> "null"]

JList(xs) == [t |-> "list", items |-> xs]

JDict(fields) == [t |-> "dict", d |-> fields]

\* q.get(key, default) of a dict; on anything else the attribute lookup raises
HasGet(q) == q.t = "dict"

Get(q, key, default) == IF key \in DOMAIN q.d THEN q.d[key] ELSE default

\* str(v) of a decoded JSON value (a str is itself, None prints as None)
PyStr(v) ==
    CASE v.t = "str" -> v.s
      [] v.t = "int" -> IntToStr(v.n)
      [] v.t = "null" -> "None"

\* x or default: the empty string is falsy
OrDefault(x, default) == IF x = "" THEN default ELSE x

\* Grammar A: whether building internal_q from element q raises.  An element
\* that is no dict has no .get.
RaisesA(q) == ~HasGet(q)

\* Grammar A: internal_q of element q
MapA(q) ==
    [question |-> Get(q, "question", ""),
     option_1 |-> Get(q, "option_1", ""),
     option_2 |-> Get(q, "option_2", ""),
     option_3 |-> Get(q, "option_3", ""),
     option_4 |-> Get(q, "option_4", ""),
     option_5 |-> Get(q, "option_5", ""),
     answer |-> PyStr(Get(q, "answer", JStr(""))),
     solution_text |-> Get(q, "solution_text", ""),
     question_image |-> Get(q, "question_image", ""),
     option_image_1 |-> Get(q, "option_image_1", ""),
     option_image_2 |-> Get(q, "option_image_2", ""),
     option_image_3 |-> Get(q, "option_image_3", ""),
     option_image_4 |-> Get(q, "option_image_4", ""),
     option_image_5 |-> Get(q, "option_image_5", ""),
     solution_image |-> Get(q, "solution_image", ""),
     correct_score |-> OrDefault(Get(q, "positive_marks", "2.00"), "2.00"),
     negative_score |-> OrDefault(Get(q, "negative_marks", "0.50"), "0.50"),
     section |-> ""]

\* options = q.get("options", [])
OptionsOf(q) == Get(q, "options", JList(<<>>))

\* q.get("correctIndex", 0)
CorrectIndexOf(q) == Get(q, "correctIndex", JInt(0))

\* Grammar B: whether building internal_q from element q raises: q has no
\* .get, len(options) is undefined, or correctIndex + 1 is a type error
RaisesB(q) ==
    \/ ~HasGet(q)
    \/ OptionsOf(q).t # "list"
    \/ CorrectIndexOf(q).t # "int"

\* options[k - 1] if len(options) > k - 1 else ""
OptionAt(options, k) == IF Len(options.items) >= k THEN options.items[k] ELSE ""

\* Grammar B: internal_q of element q
MapB(q) ==
    [question |-> Get(q, "text", ""),
     option_1 |-> OptionAt(OptionsOf(q), 1),
     option_2 |-> OptionAt(OptionsOf(q), 2),
     option_3 |-> OptionAt(OptionsOf(q), 3),
     option_4 |-> OptionAt(OptionsOf(q), 4),
     option_5 |-> OptionAt(OptionsOf(q), 5),
     answer |-> IntToStr(CorrectIndexOf(q).n + 1),
     solution_text |-> Get(q, "explanation", ""),
     question_image |-> "",
     option_image_1 |-> "", option_image_2 |-> "", option_image_3 |-> "",
     option_image_4 |-> "", option_image_5 |-> "",
     solution_image |-> "",
     correct_score |-> "1",
     negative_score |-> "0.25",
     section |-> ""]

\* qlist = quizdata.get("questions", [])
QuizDataList(quizdata) == Get(quizdata, "questions", JList(<<>>))

\* `for q in qlist` raises unless qlist is iterable; of the iterable JSON
\* values the model's inputs hold lists
Iterable(v) == v.t = "list"

\* the element mapping of grammar g ("A": const questions, "B": const quizData)
Raises(g, q) == IF g = "A" THEN RaisesA(q) ELSE RaisesB(q)

MapElement(g, q) == IF g = "A" THEN MapA(q) ELSE MapB(q)

RECURSIVE MapAll(_, _, _)
\* the for loop of grammar g from element i on: the list built, or the
\* failure of the first element that raises
MapAll(g, items, i) ==
    IF i > Len(items) THEN [ok |-> TRUE, result |-> <<>>]
    ELSE IF Raises(g, items[i]) THEN [ok |-> FALSE, result |-> <<>>]
    ELSE LET rest == MapAll(g, items, i + 1)
         IN  [ok |-> rest.ok,
              result |-> IF rest.ok THEN <<MapElement(g, items[i])>> \o rest.result
                         ELSE <<>>]

\* the try block of Grammar A
GrammarA(src) ==
    IF src.found /\ src.decodes
    THEN MapAll("A", src.value.items, 1)
    ELSE [ok |-> FALSE, result |-> <<>>]

\* the try block of Grammar B
GrammarB(src) ==
    IF src.found /\ src.decodes /\ Iterable(QuizDataList(src.value))
    THEN MapAll("B", QuizDataList(src.value).items, 1)
    ELSE [ok |-> FALSE, result |-> <<>>]

parse_html_file(content) ==
    IF GrammarA(content.questions_src).ok
    THEN GrammarA(content.questions_src).result
    ELSE IF GrammarB(content.quizData_src).ok
    THEN GrammarB(content.quizData_src).result
    ELSE <<>>

(***************************************************************************)
(* The inputs of the parsers                                               *)
(***************************************************************************)
\* the longest line sequence of the free-form texts
MaxLines == 4

\* the most option lines of a text of the numbered-question dialect
MaxDialectOptions == 3

\* the most elements of an embedded array
MaxElems == 2

SeqsUpTo(S, n) == UNION { [1..k -> S] : k \in 1..n }

\* lines of every kind the parser tells apart, put together in any order
FreeLines ==
    {"1. Q", "Hindi", "a) X", "(b) Y", "Correct option:-b", "Answer: (c)",
     "Answer- d", "ex: E", "Correct: -"}

FreeTexts == { Join(ls, "\n") : ls \in SeqsUpTo(FreeLines, MaxLines) }

\* the option lines of the dialect texts, by position
DialectOption == <<"a) X", "(b) Y", "C. Z", "d) W", "e) V">>

RECURSIVE DialectOptionLines(_, _)
\* option lines 1..n, option k followed by a continuation line when cont[k]
DialectOptionLines(cont, n) ==
    IF n = 0 THEN <<>>
    ELSE DialectOptionLines(cont, n - 1) \o <<DialectOption[n]>>
           \o (IF cont[n] THEN <<"Hindi">> ELSE <<>>)

\* texts of the numbered-question dialect: header, optional question
\* continuation, 2..MaxDialectOptions options each with an optional
\* continuation, one Correct option line, optional ex: line
DialectTexts ==
    { Join(<<h>> \o qc \o DialectOptionLines(cont, n)
             \o <<"Correct option:-" \o x>> \o ex, "\n") :
        h \in {"7. Who?", "Q.7 Who?"},
        qc \in {<<>>, <<"Kaun?">>},
        n \in 2..MaxDialectOptions,
        cont \in [1..MaxDialectOptions -> BOOLEAN],
        x \in LetterAE,
        ex \in {<<>>, <<"ex: E">>} }

\* texts that reach the option cap, texts of several blocks, texts with
\* markup, entities and numbering inside the text
OtherTexts ==
    {"1. Q\na) 1\nb) 2\nc) 3\nd) 4\ne) 5\na) 6\nAnswer: (e)",
     "1. Q\nA. 1\nB. 2\nC. 3\nD. 4\nE. 5\nnote\nCorrect option:-c\nex: E\nex: F",
     "1. What is 2+2?\na) 3\nb) 4\nCorrect option:-b\nex: Basic math",
     "1. What is 2+2?\na) 3\nb) 4\nCorrect option:-b\nex: Basic math\n\n2. Next?\na) X\nb) Y\nAnswer:- a",
     "1. One?\na) X\nb) Y\nCorrect option:-a\n2. Two?\na) P\nb) Q\nCorrect option:-b",
     "12. Big?\na) X\nb) Y\nCorrect:d",
     "Which?\n(a) X\n(b) Y\nAnswer: (b)\n\n\nstray\nline\n\n3. Three?\na) X\nCorrect option:-a",
     "1. P &amp; Q <b>bold</b>\na) x &lt; y\nb) <i>Y</i>\nCorrect option:-a\nex: see  it",
     "1. Q\nmore\na) see 2. Art\nb) Y\nCorrect option:-b",
     "1.\na) X\nb) Y\nCorrect option:-b",
     "1. Q\na) X\nb) Y\n\nno\noptions\nhere",
     "1. Q\na) X\n\n2. R\na) X\nAnswer: a",
     "1. Q\na) X\nb) Y\n\nno\noptions\nhere\n\n3. R\na) X\nAnswer: a",
     "  \n\n1. Q\n  a) X  \n \nb) Y\nCORRECT OPTION : B\nEX:E\n\n"}

Texts == FreeTexts \cup DialectTexts \cup OtherTexts

NotFound == [found |-> FALSE, decodes |-> FALSE, value |-> JNull]

Undecodable == [found |-> TRUE, decodes |-> FALSE, value |-> JNull]

Decoded(v) == [found |-> TRUE, decodes |-> TRUE, value |-> v]

\* elements of `const questions = [...]`
ElemsA ==
    {JDict([question |-> "Q1", option_1 |-> "X", option_2 |-> "Y <b>y</b>",
            answer |-> JInt(2), solution_text |-> "E &amp; F",
            positive_marks |-> "4"]),
     JDict([question |-> "", option_3 |-> "Z", answer |-> JStr("b")]),
     JDict([question |-> "Q3", option_2 |-> "Y", answer |-> JStr("7"),
            negative_marks |-> ""]),
     JDict([question |-> "Q4", option_1 |-> "X", answer |-> JNull]),
     JInt(5)}

\* elements of the questions array of `const quizData = {...}`
ElemsB ==
    {JDict([text |-> "T1", options |-> JList(<<"X", "Y">>),
            correctIndex |-> JInt(1), explanation |-> "E"]),
     JDict([text |-> "T2", options |-> JList(<<"X", "Y", "Z", "W", "V", "U">>),
            correctIndex |-> JInt(6)]),
     JDict([text |-> "", options |-> JList(<<>>)]),
     JDict([text |-> "T4", options |-> JList(<<"X">>), correctIndex |-> JNull]),
     JDict([text |-> "T5", options |-> JNull, correctIndex |-> JInt(0)]),
     JStr("x")}

ListsUpTo(S, n) == {<<>>} \cup SeqsUpTo(S, n)

SourcesA ==
    {NotFound, Undecodable}
      \cup { Decoded(JList(xs)) : xs \in ListsUpTo(ElemsA, MaxElems) }

SourcesB ==
    {NotFound, Undecodable, Decoded(JDict([title |-> "T"])),
     Decoded(JDict([questions |-> JNull]))}
      \cup { Decoded(JDict([questions |-> JList(xs)])) :
               xs \in ListsUpTo(ElemsB, MaxElems) }

\* a few sources of each grammar, to go with every source of the other
FewA ==
    {NotFound, Undecodable,
     Decoded(JList(<<JDict([question |-> "Q1", option_1 |-> "X"]), JInt(5)>>)),
     Decoded(JList(<<>>))}

FewB ==
    {NotFound,
     Decoded(JDict([questions |-> JList(<<JDict([text |-> "T1",
                       options |-> JList(<<"X", "Y">>),
                       correctIndex |-> JInt(4)])>>)]))}

TextFile(t) == [text |-> t, questions_src |-> NotFound, quizData_src |-> NotFound]

HtmlFile(a, b) == [text |-> "", questions_src |-> a, quizData_src |-> b]

HtmlContents ==
    { HtmlFile(a, b) : a \in SourcesA, b \in FewB }
      \cup { HtmlFile(a, b) : a \in FewA, b \in SourcesB }

(***************************************************************************)
(* State                                                                   *)
(***************************************************************************)
VARIABLES
    path,            \* the parser the dispatcher chose: "txt" or "html"
    content,         \* the content of the uploaded file
    phase,           \* 1: parsing the upload, 2: parsing the downloaded text
    pc,              \* the position of the parser
    blocks,          \* parse_txt_file: blocks
    block_index,     \* parse_txt_file: the blocks the for loop has taken
    lines,           \* parse_txt_file: lines
    current_line,    \* parse_txt_file: current_line (0-based)
    question_lines,  \* parse_txt_file: question_lines
    question,        \* parse_txt_file: question
    option_count,    \* parse_txt_file: option_count
    qlist,           \* parse_html_file: qlist
    q_index,         \* parse_html_file: the elements the for loop has taken
    result,          \* parse_html_file: result
    questions,       \* the list the parser builds and returns
    first,           \* the list stored by the upload (phase 1's result)
    txt              \* download_txt: txt_content

VARIABLES
    TEMP_QUIZ_DATA,  \* app.config['TEMP_QUIZ_DATA']: quiz id -> entry
    handler,         \* upload: "idle", "loop" (in the for loop), "responded"
    quiz_type,       \* upload: quiz_type
    request,         \* upload: the parts of the request iterated so far
    files,           \* upload: files (the accumulated questions)
    sections,        \* upload: sections
    parsed,          \* upload: the parser calls of the request, in order
    response,        \* upload: the response returned
    threads,         \* the request each server thread serves and where it is
    returned         \* quiz id -> the list of the upload that returned it

parserVars ==
    <<path, content, phase, pc, blocks, block_index, lines, current_line,
      question_lines, question, option_count, qlist, q_index, result,
      questions, first, txt>>

uploadVars ==
    <<TEMP_QUIZ_DATA, handler, quiz_type, request, files, sections, parsed,
      response, threads, returned>>

vars == <<parserVars, uploadVars>>

NoResponse == [status |-> 0]

\* the request threads of the server, each serving one request at a time
MaxThreads == 2

Threads == 1..MaxThreads

\* a thread that serves no request
Idle ==
    [op |-> "idle", at |-> "idle", quiz_id |-> 0, data |-> <<>>,
     known |-> FALSE, response |-> NoResponse]

\* the request threads, and the ids uploads have returned (known: the id of
\* a preview or download had been returned when the request read the store)
storeVars == <<threads, returned>>

\* no request has been received
NoUpload ==
    /\ TEMP_QUIZ_DATA = <<>>
    /\ handler = "idle"
    /\ quiz_type = "topic"
    /\ request = <<>>
    /\ files = <<>>
    /\ sections = <<>>
    /\ parsed = <<>>
    /\ response = NoResponse
    /\ threads = [t \in Threads |-> Idle]
    /\ returned = <<>>

txtLocals ==
    <<blocks, block_index, lines, current_line, question_lines, question,
      option_count>>

htmlLocals == <<qlist, q_index, result>>

\* the locals of the current block as a record, and their assignment
Cur ==
    [lines |-> lines, current_line |-> current_line,
     question_lines |-> question_lines, question |-> question,
     option_count |-> option_count]

SetCur(b) ==
    /\ lines' = b.lines
    /\ current_line' = b.current_line
    /\ question_lines' = b.question_lines
    /\ question' = b.question
    /\ option_count' = b.option_count

\* the text parse_txt_file is called with
Source == IF phase = 1 THEN content.text ELSE txt

Init ==
    /\ \/ path = "txt" /\ content \in { TextFile(t) : t \in Texts }
       \/ path = "html" /\ content \in HtmlContents
    /\ phase = 1
    /\ pc = IF path = "txt" THEN "split" ELSE "search_A"
    /\ blocks = <<>>
    /\ block_index = 0
    /\ lines = <<>>
    /\ current_line = 0
    /\ question_lines = <<>>
    /\ question = NewQuestion
    /\ option_count = 0
    /\ qlist = <<>>
    /\ q_index = 0
    /\ result = <<>>
    /\ questions = <<>>
    /\ first = <<>>
    /\ txt = ""
    /\ NoUpload

(***************************************************************************)
(* parse_txt_file, step by step                                            *)
(***************************************************************************)
\* questions = []; blocks = re.split(...)
Split ==
    /\ pc = "split"
    /\ blocks' = SplitBlocks(Source)
    /\ block_index' = 0
    /\ questions' = <<>>
    /\ pc' = "block"
    /\ UNCHANGED uploadVars
    /\ UNCHANGED <<path, content, phase, lines, current_line, question_lines,
                   question, option_count, first, txt>>
    /\ UNCHANGED htmlLocals

\* for block in blocks: the two `continue`s (empty block, fewer than 3 lines)
SkipBlock ==
    /\ pc = "block"
    /\ block_index < Len(blocks)
    /\ \/ strip(blocks[block_index + 1]) = ""
       \/ Len(BlockLines(blocks[block_index + 1])) < MinLines
    /\ block_index' = block_index + 1
    /\ UNCHANGED uploadVars
    /\ UNCHANGED <<path, content, phase, pc, blocks, lines, current_line,
                   question_lines, question, option_count, questions, first, txt>>
    /\ UNCHANGED htmlLocals

\* a plausible fault: the length test of the block loop is left out
EnterBlockAny ==
    /\ pc = "block"
    /\ block_index < Len(blocks)
    /\ strip(blocks[block_index + 1]) # ""
    /\ block_index' = block_index + 1
    /\ SetCur(StartBlock(BlockLines(blocks[block_index + 1])))
    /\ pc' = "header"
    /\ UNCHANGED uploadVars
    /\ UNCHANGED <<path, content, phase, blocks, questions, first, txt>>
    /\ UNCHANGED htmlLocals

\* for block in blocks: lines, the fresh question dict, current_line = 0
EnterBlock ==
    /\ pc = "block"
    /\ block_index < Len(blocks)
    /\ strip(blocks[block_index + 1]) # ""
    /\ Len(BlockLines(blocks[block_index + 1])) >= MinLines
    /\ block_index' = block_index + 1
    /\ SetCur(StartBlock(BlockLines(blocks[block_index + 1])))
    /\ pc' = "header"
    /\ UNCHANGED uploadVars
    /\ UNCHANGED <<path, content, phase, blocks, questions, first, txt>>
    /\ UNCHANGED htmlLocals

Header ==
    /\ pc = "header"
    /\ SetCur(HeaderStep(Cur))
    /\ pc' = "question_text"
    /\ UNCHANGED uploadVars
    /\ UNCHANGED <<path, content, phase, blocks, block_index, questions, first, txt>>
    /\ UNCHANGED htmlLocals

QuestionText ==
    /\ pc = "question_text"
    /\ QuestionCond(Cur)
    /\ SetCur(QuestionStep(Cur))
    /\ UNCHANGED uploadVars
    /\ UNCHANGED <<path, content, phase, pc, blocks, block_index, questions,
                   first, txt>>
    /\ UNCHANGED htmlLocals

EndQuestionText ==
    /\ pc = "question_text"
    /\ ~QuestionCond(Cur)
    /\ SetCur(JoinQuestion(Cur))
    /\ pc' = "options"
    /\ UNCHANGED uploadVars
    /\ UNCHANGED <<path, content, phase, blocks, block_index, questions, first, txt>>
    /\ UNCHANGED htmlLocals

Option ==
    /\ pc = "options"
    /\ OptionsCond(Cur)
    /\ SetCur(OptionStep(Cur))
    /\ UNCHANGED uploadVars
    /\ UNCHANGED <<path, content, phase, pc, blocks, block_index, questions,
                   first, txt>>
    /\ UNCHANGED htmlLocals

EndOptions ==
    /\ pc = "options"
    /\ ~OptionsCond(Cur)
    /\ pc' = "answer"
    /\ UNCHANGED uploadVars
    /\ UNCHANGED <<path, content, phase, questions, first, txt>>
    /\ UNCHANGED txtLocals
    /\ UNCHANGED htmlLocals

Answer ==
    /\ pc = "answer"
    /\ AnswerCond(Cur)
    /\ SetCur(AnswerStep(Cur))
    /\ UNCHANGED uploadVars
    /\ UNCHANGED <<path, content, phase, pc, blocks, block_index, questions,
                   first, txt>>
    /\ UNCHANGED htmlLocals

Explanation ==
    /\ pc = "answer"
    /\ ~AnswerCond(Cur)
    /\ SetCur(ExplanationStep(Cur))
    /\ pc' = "retain"
    /\ UNCHANGED uploadVars
    /\ UNCHANGED <<path, content, phase, blocks, block_index, questions, first, txt>>
    /\ UNCHANGED htmlLocals

\* if question["question"] and (...): questions.append(question)
Retain ==
    /\ pc = "retain"
    /\ questions' = IF Retained(question) THEN Append(questions, question)
                    ELSE questions
    /\ pc' = "block"
    /\ UNCHANGED uploadVars
    /\ UNCHANGED <<path, content, phase, first, txt>>
    /\ UNCHANGED txtLocals
    /\ UNCHANGED htmlLocals

\* return questions
ReturnTxt ==
    /\ pc = "block"
    /\ block_index = Len(blocks)
    /\ pc' = "return"
    /\ UNCHANGED uploadVars
    /\ UNCHANGED <<path, content, phase, questions, first, txt>>
    /\ UNCHANGED txtLocals
    /\ UNCHANGED htmlLocals

(***************************************************************************)
(* parse_html_file, step by step                                           *)
(***************************************************************************)
\* re.search for `const questions`, json.loads, result = []
SearchQuestions ==
    /\ pc = "search_A"
    /\ IF content.questions_src.found /\ content.questions_src.decodes
       THEN /\ qlist' = content.questions_src.value.items
            /\ pc' = "map_A"
       ELSE /\ qlist' = qlist
            /\ pc' = "search_B"
    /\ q_index' = 0
    /\ result' = <<>>
    /\ UNCHANGED uploadVars
    /\ UNCHANGED <<path, content, phase, questions, first, txt>>
    /\ UNCHANGED txtLocals

\* a plausible fault: an element that fails to map ends the call with the
\* elements mapped so far
MapStepPartial(g, here, next) ==
    /\ pc = here
    /\ q_index < Len(qlist)
    /\ IF Raises(g, qlist[q_index + 1])
       THEN /\ pc' = "return"
            /\ questions' = result
            /\ UNCHANGED <<q_index, result>>
       ELSE /\ result' = Append(result, MapElement(g, qlist[q_index + 1]))
            /\ q_index' = q_index + 1
            /\ pc' = pc
            /\ UNCHANGED questions
    /\ UNCHANGED uploadVars
    /\ UNCHANGED <<path, content, phase, qlist, first, txt>>
    /\ UNCHANGED txtLocals

\* one iteration of `for q in qlist` of grammar g; an exception leaves the try
\* block for `next`
MapStep(g, here, next) ==
    /\ pc = here
    /\ q_index < Len(qlist)
    /\ IF Raises(g, qlist[q_index + 1])
       THEN /\ pc' = next
            /\ UNCHANGED <<q_index, result>>
       ELSE /\ result' = Append(result, MapElement(g, qlist[q_index + 1]))
            /\ q_index' = q_index + 1
            /\ pc' = pc
    /\ UNCHANGED uploadVars
    /\ UNCHANGED <<path, content, phase, qlist, questions, first, txt>>
    /\ UNCHANGED txtLocals

MapQuestions == MapStep("A", "map_A", "search_B")

\* return result
ReturnResult ==
    /\ pc \in {"map_A", "map_B"}
    /\ q_index = Len(qlist)
    /\ questions' = result
    /\ pc' = "return"
    /\ UNCHANGED uploadVars
    /\ UNCHANGED <<path, content, phase, first, txt>>
    /\ UNCHANGED txtLocals
    /\ UNCHANGED htmlLocals

\* a plausible fault: Grammar B appends to the list Grammar A left behind
SearchQuizDataKeep ==
    /\ pc = "search_B"
    /\ IF /\ content.quizData_src.found
          /\ content.quizData_src.decodes
          /\ Iterable(QuizDataList(content.quizData_src.value))
       THEN /\ qlist' = QuizDataList(content.quizData_src.value).items
            /\ pc' = "map_B"
       ELSE /\ qlist' = qlist
            /\ pc' = "empty"
    /\ q_index' = 0
    /\ result' = result
    /\ UNCHANGED uploadVars
    /\ UNCHANGED <<path, content, phase, questions, first, txt>>
    /\ UNCHANGED txtLocals

\* re.search for `const quizData`, json.loads, quizdata.get("questions", [])
SearchQuizData ==
    /\ pc = "search_B"
    /\ IF /\ content.quizData_src.found
          /\ content.quizData_src.decodes
          /\ Iterable(QuizDataList(content.quizData_src.value))
       THEN /\ qlist' = QuizDataList(content.quizData_src.value).items
            /\ pc' = "map_B"
       ELSE /\ qlist' = qlist
            /\ pc' = "empty"
    /\ q_index' = 0
    /\ result' = <<>>
    /\ UNCHANGED uploadVars
    /\ UNCHANGED <<path, content, phase, questions, first, txt>>
    /\ UNCHANGED txtLocals

MapQuizData == MapStep("B", "map_B", "empty")

\* return []
ReturnEmpty ==
    /\ pc = "empty"
    /\ questions' = <<>>
    /\ pc' = "return"
    /\ UNCHANGED uploadVars
    /\ UNCHANGED <<path, content, phase, first, txt>>
    /\ UNCHANGED txtLocals
    /\ UNCHANGED htmlLocals

(***************************************************************************)
(* The round trip: the upload stores a non-empty list, download_txt        *)
(* serializes it and the downloaded text is uploaded again as a .txt file  *)
(***************************************************************************)
Serialize ==
    /\ pc = "return"
    /\ phase = 1
    /\ questions # <<>>
    /\ first' = questions
    /\ txt' = questions_to_txt(questions)
    /\ phase' = 2
    /\ pc' = "split"
    /\ UNCHANGED uploadVars
    /\ UNCHANGED <<path, content, questions>>
    /\ UNCHANGED txtLocals
    /\ UNCHANGED htmlLocals

Next ==
    \/ Split
    \/ SkipBlock
    \/ EnterBlock
    \/ Header
    \/ QuestionText
    \/ EndQuestionText
    \/ Option
    \/ EndOptions
    \/ Answer
    \/ Explanation
    \/ Retain
    \/ ReturnTxt
    \/ SearchQuestions
    \/ MapQuestions
    \/ SearchQuizData
    \/ MapQuizData
    \/ ReturnResult
    \/ ReturnEmpty
    \/ Serialize

Spec == Init /\ [][Next]_vars

\* one call of parse_txt_file, on the handwritten texts and the dialect texts
InitTxt ==
    /\ Init
    /\ path = "txt"
    /\ content.text \in OtherTexts \cup DialectTexts

NextTxt ==
    \/ Split
    \/ SkipBlock
    \/ EnterBlock
    \/ Header
    \/ QuestionText
    \/ EndQuestionText
    \/ Option
    \/ EndOptions
    \/ Answer
    \/ Explanation
    \/ Retain
    \/ ReturnTxt

\* the interpreter runs the statements one after another and never waits
SpecTxt == InitTxt /\ [][NextTxt]_vars /\ WF_vars(NextTxt)

(***************************************************************************)
(* upload                                                                  *)
(***************************************************************************)
MaxFiles == 2

MaxQuizzes == 1

QuizIds == 1..MaxQuizzes

RECURSIVE LowerStr(_)
\* str.lower()
LowerStr(s) ==
    IF s = "" THEN "" ELSE lower(SubSeq(s, 1, 1)) \o LowerStr(From(s, 2))

\* str.endswith(suffix)
EndsWith(s, suffix) ==
    /\ Len(s) >= Len(suffix)
    /\ SubSeq(s, Len(s) - Len(suffix) + 1, Len(s)) = suffix

\* the branch the extension test takes for a lower-cased file name
FileKind(filename) ==
    IF EndsWith(filename, ".txt") THEN "txt"
    ELSE IF EndsWith(filename, ".html") \/ EndsWith(filename, ".htm") THEN "html"
    ELSE "unsupported"

\* the list the parser of the branch returns for the file
ParseUpload(file) ==
    IF FileKind(LowerStr(file.filename)) = "txt"
    THEN parse_txt_file(file.content.text)
    ELSE parse_html_file(file.content)

\* a plausible fault: the content is parsed before the extension is tested
InvokedBeforeTest(file) ==
    <<[filename |-> file.filename, parser |-> "parse_txt_file"]>>

\* the parser calls the dispatch makes for the file
Invoked(file) ==
    IF FileKind(LowerStr(file.filename)) = "txt"
    THEN <<[filename |-> file.filename, parser |-> "parse_txt_file"]>>
    ELSE IF FileKind(LowerStr(file.filename)) = "html"
    THEN <<[filename |-> file.filename, parser |-> "parse_html_file"]>>
    ELSE <<>>

\* a plausible fault: only the first question of the file gets the label
LabelledFirst(qs, section_name) ==
    [i \in 1..Len(qs) |->
        IF i = 1 THEN [qs[i] EXCEPT !.section = section_name] ELSE qs[i]]

\* for q in qs: q["section"] = section_name
Labelled(qs, section_name) ==
    [i \in 1..Len(qs) |-> [qs[i] EXCEPT !.section = section_name]]

Error(status, message) == [status |-> status, error |-> message]

Ok(quiz_id) == [status |-> 200, quiz_id |-> quiz_id]

UnsupportedTopic == "Unsupported file type. Please upload .txt or .html"

UnsupportedFull(section_name) ==
    "Unsupported file type for section " \o section_name \o ". Use .txt or .html"

\* a plausible fault: the store is rebuilt around the new entry
StoredAlone(quiz_id, entry) == [k \in {quiz_id} |-> entry]

\* TEMP_QUIZ_DATA[quiz_id] = entry
Stored(quiz_id, entry) ==
    [k \in DOMAIN TEMP_QUIZ_DATA \cup {quiz_id} |->
        IF k = quiz_id THEN entry ELSE TEMP_QUIZ_DATA[k]]

\* the files of the requests
TxtUpload ==
    [filename |-> "a.txt",
     content |-> TextFile("1. A\na) X\nb) Y\n2. B\n(a) P\nAnswer: b")]

HtmUpload ==
    [filename |-> "B.HTM",
     content |-> HtmlFile(NotFound,
                    Decoded(JDict([questions |-> JList(<<JDict([text |-> "T1",
                        options |-> JList(<<"X", "Y">>),
                        correctIndex |-> JInt(1)])>>)])))]

HtmlUpload ==
    [filename |-> "d.html",
     content |-> HtmlFile(Decoded(JList(<<JDict([question |-> "Q1",
                    option_1 |-> "X", answer |-> JInt(1)])>>)), NotFound)]

EmptyUpload == [filename |-> "e.html", content |-> HtmlFile(NotFound, NotFound)]

PdfUpload == [filename |-> "c.pdf", content |-> TextFile("1. Q\na) X\nb) Y")]

\* a name that ends in txt without the dot
NoDotUpload == [filename |-> "notes_txt", content |-> TextFile("1. Q\na) X\nb) Y")]

\* a part without a file: an empty file name
Unfilled == [filename |-> "", content |-> TextFile("")]

\* request.files.get('file') of a topic request: a sequence of at most one file
TopicFiles ==
    {<<>>, <<TxtUpload>>, <<HtmUpload>>, <<HtmlUpload>>, <<EmptyUpload>>,
     <<PdfUpload>>, <<NoDotUpload>>, <<Unfilled>>}

Part(key, file, section) == [key |-> key, file |-> file, section |-> section]

\* the entries of request.files of a full mock request, each with the form
\* value of its section
Parts ==
    {Part("file_1", TxtUpload, "GK"),
     Part("file_8", TxtUpload, " Math "),
     Part("file_2", HtmUpload, " Math "),
     Part("file_3", EmptyUpload, "GK"),
     Part("logo", PdfUpload, ""),
     Part("file_4", TxtUpload, "  "),
     Part("file_5", Unfilled, "GK"),
     Part("file_6", PdfUpload, "GK"),
     Part("file_7", PdfUpload, ""),
     Part("file_9", NoDotUpload, "GK")}

\* a request is received while the store has room for its entry
Receives == handler # "loop" /\ Cardinality(DOMAIN TEMP_QUIZ_DATA) < MaxQuizzes

\* return jsonify(...), status
Respond(r) ==
    /\ response' = r
    /\ handler' = "responded"

\* upload(), quiz_type == 'topic'
UploadTopic ==
    /\ Receives
    /\ quiz_type' = "topic"
    /\ files' = <<>>
    /\ sections' = <<>>
    /\ \E f \in TopicFiles :
          /\ request' = [i \in 1..Len(f) |-> Part("file", f[i], "")]
          /\ IF f = <<>> \/ f[1].filename = ""
             THEN /\ Respond(Error(400, "No file"))
                  /\ parsed' = <<>>
                  /\ UNCHANGED TEMP_QUIZ_DATA
             ELSE IF FileKind(LowerStr(f[1].filename)) = "unsupported"
             THEN /\ Respond(Error(400, UnsupportedTopic))
                  /\ parsed' = Invoked(f[1])
                  /\ UNCHANGED TEMP_QUIZ_DATA
             ELSE LET qs == ParseUpload(f[1])
                  IN  /\ parsed' = Invoked(f[1])
                      /\ IF qs = <<>>
                         THEN /\ Respond(Error(400, "No questions parsed"))
                              /\ UNCHANGED TEMP_QUIZ_DATA
                         ELSE \E quiz_id \in QuizIds \ DOMAIN TEMP_QUIZ_DATA :
                                /\ TEMP_QUIZ_DATA' =
                                     Stored(quiz_id, [questions |-> qs,
                                                      quiz_type |-> "topic"])
                                /\ Respond(Ok(quiz_id))
    /\ UNCHANGED parserVars
    /\ UNCHANGED storeVars

\* upload(), full mock: files = []; sections = []
UploadFull ==
    /\ Receives
    /\ quiz_type' = "full"
    /\ request' = <<>>
    /\ files' = <<>>
    /\ sections' = <<>>
    /\ parsed' = <<>>
    /\ response' = NoResponse
    /\ handler' = "loop"
    /\ UNCHANGED TEMP_QUIZ_DATA
    /\ UNCHANGED parserVars
    /\ UNCHANGED storeVars

\* one iteration of `for key in request.files`
UploadFile ==
    /\ handler = "loop"
    /\ Len(request) < MaxFiles
    /\ \E p \in Parts :
          /\ request' = Append(request, p)
          /\ IF ~StartsWith(p.key, "file_")
             THEN UNCHANGED <<files, sections, parsed, response, handler>>
             ELSE IF p.file.filename = "" \/ strip(p.section) = ""
             THEN /\ Respond(Error(400, "Section missing"))
                  /\ UNCHANGED <<files, sections, parsed>>
             ELSE IF FileKind(LowerStr(p.file.filename)) = "unsupported"
             THEN /\ Respond(Error(400, UnsupportedFull(strip(p.section))))
                  /\ parsed' = parsed \o Invoked(p.file)
                  /\ UNCHANGED <<files, sections>>
             ELSE /\ parsed' = parsed \o Invoked(p.file)
                  /\ files' = files \o Labelled(ParseUpload(p.file), strip(p.section))
                  /\ sections' = Append(sections, strip(p.section))
                  /\ UNCHANGED <<response, handler>>
    /\ UNCHANGED <<TEMP_QUIZ_DATA, quiz_type>>
    /\ UNCHANGED parserVars
    /\ UNCHANGED storeVars

\* a plausible fault: the full mock stores its entry without testing `files`
UploadStoreAlways ==
    /\ handler = "loop"
    /\ \E quiz_id \in QuizIds \ DOMAIN TEMP_QUIZ_DATA :
          /\ TEMP_QUIZ_DATA' =
               Stored(quiz_id, [questions |-> files, quiz_type |-> quiz_type,
                                sections |-> sections])
          /\ Respond(Ok(quiz_id))
    /\ UNCHANGED <<quiz_type, request, files, sections, parsed>>
    /\ UNCHANGED parserVars
    /\ UNCHANGED storeVars

\* the for loop is over: nothing parsed, or the entry is stored
UploadStore ==
    /\ handler = "loop"
    /\ IF files = <<>>
       THEN /\ Respond(Error(400, "No questions parsed"))
            /\ UNCHANGED TEMP_QUIZ_DATA
       ELSE \E quiz_id \in QuizIds \ DOMAIN TEMP_QUIZ_DATA :
              /\ TEMP_QUIZ_DATA' =
                   Stored(quiz_id, [questions |-> files, quiz_type |-> quiz_type,
                                    sections |-> sections])
              /\ Respond(Ok(quiz_id))
    /\ UNCHANGED <<quiz_type, request, files, sections, parsed>>
    /\ UNCHANGED parserVars
    /\ UNCHANGED storeVars

InitUpload ==
    /\ path = "txt"
    /\ content = TextFile("")
    /\ phase = 1
    /\ pc = "return"
    /\ blocks = <<>>
    /\ block_index = 0
    /\ lines = <<>>
    /\ current_line = 0
    /\ question_lines = <<>>
    /\ question = NewQuestion
    /\ option_count = 0
    /\ qlist = <<>>
    /\ q_index = 0
    /\ result = <<>>
    /\ questions = <<>>
    /\ first = <<>>
    /\ txt = ""
    /\ NoUpload

NextUpload ==
    \/ UploadTopic
    \/ UploadFull
    \/ UploadFile
    \/ UploadStore

SpecUpload == InitUpload /\ [][NextUpload]_vars

(***************************************************************************)
(* The handlers as concurrent requests.  Each request runs in a thread of   *)
(* its own; the threads share TEMP_QUIZ_DATA only, and a handler reads or   *)
(* writes it in one dict operation.  A step is one such operation, or the   *)
(* thread-local statements between two of them.                             *)
(***************************************************************************)
\* the variables of the step-by-step upload handler
handlerVars == <<handler, quiz_type, request, files, sections, parsed, response>>

\* the entry an upload reaches its store statement with (an empty list:
\* the upload answers 'No questions parsed' before it)
UploadEntries ==
    { [questions |-> ParseUpload(f), quiz_type |-> "topic"] :
        f \in {HtmUpload, EmptyUpload} }
      \cup { [questions |-> Labelled(ParseUpload(TxtUpload), "GK"),
              quiz_type |-> "full", sections |-> <<"GK">>] }

\* the entries the store holds at most while the threads are observed
MaxStored == 2

\* the ids uuid4 generates
StoreIds == 1..MaxStored

\* the ids requests ask for: those of StoreIds and 0, which no upload generates
RequestIds == StoreIds \cup {0}

\* the `time` values of generate requests
Times == {"25", "soon"}

\* request.files.get('image'): no part, a text part, an image Pillow opens
\* and an image it does not
ImageFiles ==
    {[present |-> FALSE, mimetype |-> "", opens |-> FALSE, encoded |-> ""],
     [present |-> TRUE, mimetype |-> "text/plain", opens |-> FALSE, encoded |-> ""],
     [present |-> TRUE, mimetype |-> "image/png", opens |-> TRUE, encoded |-> "/9j/4A=="],
     [present |-> TRUE, mimetype |-> "image/gif", opens |-> FALSE, encoded |-> ""]}

\* None
None == [none |-> TRUE, str |-> ""]

\* process_image: the data URL, or None when any statement of the try raised
process_image(file) ==
    IF file.opens
    THEN [none |-> FALSE, str |-> "data:image/jpeg;base64," \o file.encoded]
    ELSE None

\* upload_image: `return X if base64_img else Y, 500` is the tuple
\* ((X if base64_img else Y), 500)
upload_image(file) ==
    IF ~file.present \/ ~StartsWith(file.mimetype, "image/")
    THEN [status |-> 400, error |-> "Invalid image"]
    ELSE LET base64_img == process_image(file)
         IN  IF ~base64_img.none /\ base64_img.str # ""
             THEN [status |-> 500, base64 |-> base64_img.str]
             ELSE [status |-> 500, error |-> "Failed"]

NotFoundResponse == [status |-> 404, body |-> "Quiz not found"]

\* thread t moves to record r
Becomes(t, r) == threads' = [threads EXCEPT ![t] = r]

\* upload(), up to the store statement, in thread t
UploadParse ==
    \E t \in Threads :
        /\ threads[t].at = "idle"
        /\ Cardinality(DOMAIN TEMP_QUIZ_DATA)
             + Cardinality({ u \in Threads : threads[u].at = "store" }) < MaxStored
        /\ \E e \in UploadEntries :
              IF e.questions = <<>>
              THEN Becomes(t, [Idle EXCEPT !.op = "upload", !.at = "responded",
                                 !.response = Error(400, "No questions parsed")])
              ELSE Becomes(t, [Idle EXCEPT !.op = "upload", !.at = "store",
                                 !.data = e])
        /\ UNCHANGED <<TEMP_QUIZ_DATA, returned>>
        /\ UNCHANGED handlerVars
        /\ UNCHANGED parserVars

\* quiz_id = str(uuid.uuid4()); app.config['TEMP_QUIZ_DATA'][quiz_id] = {...}
UploadWrite ==
    \E t \in Threads :
        /\ threads[t].at = "store"
        /\ \E quiz_id \in StoreIds \ DOMAIN TEMP_QUIZ_DATA :
              /\ TEMP_QUIZ_DATA' = Stored(quiz_id, threads[t].data)
              /\ Becomes(t, [threads[t] EXCEPT !.at = "return", !.quiz_id = quiz_id])
        /\ UNCHANGED returned
        /\ UNCHANGED handlerVars
        /\ UNCHANGED parserVars

\* return jsonify({'quiz_id': quiz_id})
UploadReturn ==
    \E t \in Threads :
        /\ threads[t].at = "return"
        /\ Becomes(t, [threads[t] EXCEPT !.at = "responded",
                                         !.response = Ok(threads[t].quiz_id)])
        /\ returned' = [k \in DOMAIN returned \cup {threads[t].quiz_id} |->
                          IF k = threads[t].quiz_id THEN threads[t].data.questions
                          ELSE returned[k]]
        /\ UNCHANGED TEMP_QUIZ_DATA
        /\ UNCHANGED handlerVars
        /\ UNCHANGED parserVars

\* data = app.config['TEMP_QUIZ_DATA'].get(quiz_id); if not data: return ...
\* for op "preview" or "download_txt"; the id is one an upload returned or
\* one the store does not hold
StoreGet(t, op) ==
    /\ threads[t].at = "idle"
    /\ \E quiz_id \in RequestIds :
          /\ quiz_id \in DOMAIN returned \/ quiz_id \notin DOMAIN TEMP_QUIZ_DATA
          /\ IF quiz_id \in DOMAIN TEMP_QUIZ_DATA
             THEN Becomes(t, [Idle EXCEPT !.op = op, !.at = "found",
                                !.quiz_id = quiz_id,
                                !.known = quiz_id \in DOMAIN returned,
                                !.data = TEMP_QUIZ_DATA[quiz_id]])
             ELSE Becomes(t, [Idle EXCEPT !.op = op, !.at = "responded",
                                !.quiz_id = quiz_id,
                                !.known = quiz_id \in DOMAIN returned,
                                !.response = NotFoundResponse])

\* preview(), up to the test of `data`
PreviewGet ==
    /\ \E t \in Threads : StoreGet(t, "preview")
    /\ UNCHANGED <<TEMP_QUIZ_DATA, returned>>
    /\ UNCHANGED handlerVars
    /\ UNCHANGED parserVars

\* return render_template('preview.html', ...)
PreviewRender ==
    \E t \in Threads :
        /\ threads[t].op = "preview"
        /\ threads[t].at = "found"
        /\ Becomes(t, [threads[t] EXCEPT !.at = "responded",
                         !.response = [status |-> 200,
                                       questions |-> threads[t].data.questions]])
        /\ UNCHANGED <<TEMP_QUIZ_DATA, returned>>
        /\ UNCHANGED handlerVars
        /\ UNCHANGED parserVars

\* download_txt(), up to the test of `data`
DownloadGet ==
    /\ \E t \in Threads : StoreGet(t, "download_txt")
    /\ UNCHANGED <<TEMP_QUIZ_DATA, returned>>
    /\ UNCHANGED handlerVars
    /\ UNCHANGED parserVars

\* txt_content = questions_to_txt(questions); return response
DownloadRespond ==
    \E t \in Threads :
        /\ threads[t].op = "download_txt"
        /\ threads[t].at = "found"
        /\ Becomes(t, [threads[t] EXCEPT !.at = "responded",
                         !.response = [status |-> 200,
                                       text |-> questions_to_txt(threads[t].data.questions)]])
        /\ UNCHANGED <<TEMP_QUIZ_DATA, returned>>
        /\ UNCHANGED handlerVars
        /\ UNCHANGED parserVars

\* generate(): no access to the store; int() of a non-numeric time raises
Generate ==
    \E t \in Threads :
        /\ threads[t].at = "idle"
        /\ \E time \in Times :
              Becomes(t, [Idle EXCEPT !.op = "generate", !.at = "responded",
                            !.response = [status |-> IF PyInt(time).ok THEN 200
                                                     ELSE 500]])
        /\ UNCHANGED <<TEMP_QUIZ_DATA, returned>>
        /\ UNCHANGED handlerVars
        /\ UNCHANGED parserVars

\* upload_image() in thread t
UploadImage ==
    \E t \in Threads :
        /\ threads[t].at = "idle"
        /\ \E file \in ImageFiles :
              Becomes(t, [Idle EXCEPT !.op = "upload_image", !.at = "responded",
                            !.data = file, !.response = upload_image(file)])
        /\ UNCHANGED <<TEMP_QUIZ_DATA, returned>>
        /\ UNCHANGED handlerVars
        /\ UNCHANGED parserVars

\* the response is sent; the thread takes the next request
Finish ==
    \E t \in Threads :
        /\ threads[t].at = "responded"
        /\ Becomes(t, Idle)
        /\ UNCHANGED <<TEMP_QUIZ_DATA, returned>>
        /\ UNCHANGED handlerVars
        /\ UNCHANGED parserVars

NextStore ==
    \/ UploadParse
    \/ UploadWrite
    \/ UploadReturn
    \/ PreviewGet
    \/ PreviewRender
    \/ DownloadGet
    \/ DownloadRespond
    \/ Generate
    \/ UploadImage
    \/ Finish

SpecStore == InitUpload /\ [][NextStore]_vars

(***************************************************************************)
(* The numbered-question dialect, as a grammar over the lines of a block   *)
(***************************************************************************)
\* a line `Correct option:-x`, x one of a..e in either case
CorrectOptionLine(l) ==
    /\ Len(l) = 17
    /\ SubSeq(l, 1, 16) = "Correct option:-"
    /\ SubSeq(l, 17, 17) \in LetterAE

RECURSIVE QuestionEnd(_, _)
\* the first line at or after i that starts an option (Len + 1 if none)
QuestionEnd(ls, i) ==
    IF i > Len(ls) \/ OptionStart(ls[i]) THEN i ELSE QuestionEnd(ls, i + 1)

RECURSIVE OptionGroups(_, _, _)
\* option lines, each with at most one continuation line, from line i on:
\* where they end and how many they are
OptionGroups(ls, i, n) ==
    IF i > Len(ls) \/ ~OptionStart(ls[i]) THEN [next |-> i, count |-> n]
    ELSE IF i + 1 <= Len(ls) /\ ~NotContinuation(ls[i + 1])
    THEN OptionGroups(ls, i + 2, n + 1)
    ELSE OptionGroups(ls, i + 1, n + 1)

\* header with a question text, question continuation lines, at least two
\* options, exactly one Correct option line, then only ex: lines
InDialect(ls) ==
    /\ Len(ls) >= 1
    /\ HeaderEnd(ls[1]) # 0
    /\ From(ls[1], HeaderEnd(ls[1])) # ""
    /\ Cardinality({ k \in 1..Len(ls) : CorrectOptionLine(ls[k]) }) = 1
    /\ LET g == OptionGroups(ls, QuestionEnd(ls, 2), 0)
       IN  /\ g.count >= 2
           /\ g.next <= Len(ls)
           /\ CorrectOptionLine(ls[g.next])
           /\ \A k \in (g.next + 1)..Len(ls) : ExLine(ls[k])

\* the letter of the Correct option line of a dialect block
DialectLetter(ls) ==
    SubSeq(ls[CHOOSE k \in 1..Len(ls) : CorrectOptionLine(ls[k])], 17, 17)

\* the fixed mapping a->"1", b->"2", c->"3", d->"4", e->"5", either case
LetterIndex(x) ==
    IntToStr(CHOOSE k \in 1..5 : SubSeq("abcde", k, k) = lower(x))

\* a text every candidate block of which is a dialect block
WellFormed(t) ==
    LET bs == SplitBlocks(t)
    IN  /\ \E i \in 1..Len(bs) : strip(bs[i]) # ""
        /\ \A i \in 1..Len(bs) :
              strip(bs[i]) # "" => InDialect(BlockLines(bs[i]))

\* the set of stripped option texts of a question
OptionTexts(q) == { strip_html(q[OptionKey(k)]) : k \in 1..MaxOptions }

AnswerRange == {"", "1", "2", "3", "4", "5"}

(***************************************************************************)
(* C1 -- round trip.  For a well-formed plain text t, parsing the          *)
(* serialization of parse_txt_file(t) gives as many questions as           *)
(* parse_txt_file(t), each with the same answer and the same set of        *)
(* stripped option texts.                                                  *)
(***************************************************************************)
C1_RoundTrip ==
    (pc = "return" /\ phase = 2 /\ path = "txt" /\ WellFormed(content.text))
      => /\ Len(questions) = Len(first)
         /\ \A i \in 1..Len(first) :
               /\ questions[i].answer = first[i].answer
               /\ OptionTexts(questions[i]) = OptionTexts(first[i])

\* a block of the five lines of the worked example
ExampleForm(ls) ==
    /\ Len(ls) = 5
    /\ HeaderEnd(ls[1]) # 0
    /\ StartsWith(ls[2], "a) ")
    /\ StartsWith(ls[3], "b) ")
    /\ ls[4] = "Correct option:-b"
    /\ StartsWith(ls[5], "ex: ")

(***************************************************************************)
(* C2 -- the block `<n>. Q`, `a) X`, `b) Y`, `Correct option:-b`, `ex: E`  *)
(* gives one Question with question Q, option_1 X, option_2 Y (without     *)
(* the a)/b) markers), option_3..option_5 empty, answer "2" and            *)
(* solution_text E.                                                        *)
(***************************************************************************)
C2_ExampleBlock ==
    (pc = "retain" /\ ExampleForm(lines))
      => /\ Retained(question)
         /\ question = [NewQuestion EXCEPT
                          !.question = From(lines[1], HeaderEnd(lines[1])),
                          !.option_1 = From(lines[2], 4),
                          !.option_2 = From(lines[3], 4),
                          !.answer = "2",
                          !.solution_text = From(lines[5], 5)]

(***************************************************************************)
(* C3 -- every block of the numbered-question dialect yields exactly one   *)
(* Question (the block is retained, and a text that is one such block      *)
(* returns a list of one), whose answer is the fixed mapping of the letter *)
(* of its Correct option line.                                             *)
(***************************************************************************)
C3_DialectAnswer ==
    /\ (pc = "retain" /\ InDialect(lines))
         => /\ Retained(question)
            /\ question.answer = LetterIndex(DialectLetter(lines))
    /\ (pc = "return" /\ phase = 1 /\ path = "txt" /\ content.text \in DialectTexts)
         => /\ Len(questions) = 1
            /\ questions[1].answer = LetterIndex(DialectLetter(lines))

\* a dialect block with a question continuation, an option continuation and
\* an upper-case answer letter has been parsed
C3_Witness ==
    /\ pc = "retain"
    /\ InDialect(lines)
    /\ DialectLetter(lines) = "E"
    /\ question.answer = "5"
    /\ Len(question_lines) = 2
    /\ question.option_2 = "(b) Y<br>Hindi"
    /\ question.option_3 = "C. Z"

\* where the options loop leaves current_line
OptionsEnd(ls) ==
    RunOptions(JoinQuestion(RunQuestion(HeaderStep(StartBlock(ls))))).current_line

\* the lines after the options that name an answer letter
MarkerLines(ls) ==
    { k \in (OptionsEnd(ls) + 1)..Len(ls) : AnswerLetter(ls[k]) # "" }

LastOf(S) == CHOOSE k \in S : \A j \in S : j <= k

(***************************************************************************)
(* C4 -- last-match precedence.  The answer scan visits every line left    *)
(* after the options, and the answer of the block is the mapping of the    *)
(* letter of the last answer-marker line among them ("" if none names a    *)
(* letter).                                                                *)
(***************************************************************************)
C4_LastMatch ==
    pc = "retain"
      => /\ current_line = Len(lines)
         /\ question.answer =
              IF MarkerLines(lines) = {} THEN ""
              ELSE LetterIndex(AnswerLetter(lines[LastOf(MarkerLines(lines))]))

\* two answer-marker lines naming different letters: the later one decided
C4_Witness ==
    /\ pc = "retain"
    /\ Cardinality(MarkerLines(lines)) >= 2
    /\ \E j \in MarkerLines(lines) :
          /\ j < LastOf(MarkerLines(lines))
          /\ AnswerLetter(lines[j]) # AnswerLetter(lines[LastOf(MarkerLines(lines))])
    /\ Retained(question)
    /\ question.answer = LetterIndex(AnswerLetter(lines[LastOf(MarkerLines(lines))]))

(***************************************************************************)
(* C5 -- retention.  As claimed, for every parsing path: every returned    *)
(* Question has a non-empty question and a non-empty option_1 or option_2. *)
(***************************************************************************)
C5_AllPathsRetention ==
    (pc = "return" /\ phase = 1)
      => \A i \in 1..Len(questions) :
            /\ questions[i].question # ""
            /\ (questions[i].option_1 # "" \/ questions[i].option_2 # "")

(***************************************************************************)
(* C5, amended -- every Question parse_txt_file returns has a non-empty    *)
(* question and a non-empty option_1 or option_2, and a candidate without  *)
(* them is not returned; parse_html_file applies no retention test: the    *)
(* grammar that succeeds returns one Question for each element.            *)
(***************************************************************************)
C5_TxtRetention ==
    /\ (pc \in {"block", "return"} /\ (path = "txt" \/ phase = 2))
         => /\ \A i \in 1..Len(questions) :
                  /\ questions[i].question # ""
                  /\ (questions[i].option_1 # "" \/ questions[i].option_2 # "")
            /\ (block_index >= 1 /\ lines # <<>>
                  /\ (question.question = ""
                        \/ (question.option_1 = "" /\ question.option_2 = ""))
                  /\ questions # <<>>)
                 => questions[Len(questions)] # question
    /\ (pc = "return" /\ path = "html" /\ phase = 1 /\ questions # <<>>)
         => Len(questions) = Len(qlist)

\* a text whose first block was returned and whose last block, a candidate
\* with a question and no option, was not
C5_Witness ==
    /\ pc = "return"
    /\ path = "txt"
    /\ phase = 1
    /\ Len(questions) = 1
    /\ question.question # ""
    /\ question.option_1 = ""
    /\ question.option_2 = ""
    /\ Len(lines) >= MinLines

(***************************************************************************)
(* C6 -- answer range.  As claimed, for every parsing path: the answer of  *)
(* every returned Question is "" or one of "1".."5".                       *)
(***************************************************************************)
C6_AllPathsAnswerRange ==
    (pc = "return" /\ phase = 1)
      => \A i \in 1..Len(questions) : questions[i].answer \in AnswerRange

(***************************************************************************)
(* C6, amended -- the answer of every Question parse_txt_file returns is   *)
(* "" or one of "1".."5".  parse_html_file checks no range: Grammar B      *)
(* returns correctIndex + 1 as a string, which is one of "1".."5" exactly  *)
(* when correctIndex (0 when absent) is in 0..4, and Grammar A returns     *)
(* str() of the answer of the source.                                      *)
(***************************************************************************)
C6_TxtAnswerRange ==
    /\ (pc \in {"retain", "block", "return"} /\ (path = "txt" \/ phase = 2))
         => /\ question.answer \in AnswerRange
            /\ \A i \in 1..Len(questions) : questions[i].answer \in AnswerRange
    /\ pc = "map_B"
         => \A i \in 1..Len(result) :
               /\ result[i].answer = IntToStr(CorrectIndexOf(qlist[i]).n + 1)
               /\ result[i].answer \in AnswerRange
                    <=> CorrectIndexOf(qlist[i]).n \in 0..4
    /\ pc = "map_A"
         => \A i \in 1..Len(result) :
               result[i].answer = PyStr(Get(qlist[i], "answer", JStr("")))

\* parse_txt_file returned a Question whose marker line names no letter
C6_Witness ==
    /\ pc = "return"
    /\ path = "txt"
    /\ phase = 1
    /\ Len(questions) = 1
    /\ questions[1].answer = ""
    /\ lines[Len(lines)] = "Correct: -"

\* a grammar is found, decodes and maps every element
MapsWell(g, items) == \A i \in 1..Len(items) : ~Raises(g, items[i])

Mapped(g, items) == [i \in 1..Len(items) |-> MapElement(g, items[i])]

SucceedsA(c) ==
    /\ c.questions_src.found
    /\ c.questions_src.decodes
    /\ MapsWell("A", c.questions_src.value.items)

SucceedsB(c) ==
    /\ c.quizData_src.found
    /\ c.quizData_src.decodes
    /\ Iterable(QuizDataList(c.quizData_src.value))
    /\ MapsWell("B", QuizDataList(c.quizData_src.value).items)

(***************************************************************************)
(* C9 -- extractor chain.  parse_html_file returns the mapped list of      *)
(* Grammar A if it is found, decodes and maps; else the mapped list of     *)
(* Grammar B if it is found, decodes and maps; else the empty list; and    *)
(* it always returns: a failure to decode or to map never ends the call.   *)
(***************************************************************************)
C9_ExtractorChain ==
    (path = "html" /\ phase = 1)
      => /\ pc = "return"
           => questions =
                IF SucceedsA(content)
                THEN Mapped("A", content.questions_src.value.items)
                ELSE IF SucceedsB(content)
                THEN Mapped("B", QuizDataList(content.quizData_src.value).items)
                ELSE <<>>
         /\ pc # "return" => ENABLED Next

\* Grammar A was found and decoded but an element after the first failed to
\* map, and Grammar B gave the list returned
C9_Witness ==
    /\ path = "html"
    /\ phase = 1
    /\ pc = "return"
    /\ content.questions_src.found
    /\ content.questions_src.decodes
    /\ Len(content.questions_src.value.items) >= 2
    /\ ~Raises("A", content.questions_src.value.items[1])
    /\ ~SucceedsA(content)
    /\ questions # <<>>
    /\ questions[1].correct_score = "1"

(***************************************************************************)
(* The lines questions_to_txt emits for the i-th question: those between   *)
(* the blank lines i-1 and i of its output.                                *)
(***************************************************************************)
RECURSIVE UntilBlank(_)
UntilBlank(ls) ==
    IF Len(ls) = 0 \/ ls[1] = "" THEN <<>>
    ELSE <<ls[1]>> \o UntilBlank(Tail(ls))

RECURSIVE AfterBlank(_)
AfterBlank(ls) ==
    IF Len(ls) = 0 THEN <<>>
    ELSE IF ls[1] = "" THEN Tail(ls)
    ELSE AfterBlank(Tail(ls))

RECURSIVE EmittedFor(_, _)
EmittedFor(ls, i) ==
    IF i = 1 THEN UntilBlank(ls) ELSE EmittedFor(AfterBlank(ls), i - 1)

\* the answer lines among the lines emitted for a question
AnswerLinesIn(ls) ==
    { k \in 1..Len(ls) : StartsWith(ls[k], "Correct option:-") }

\* a non-empty string of decimal digits
IsDigits(x) == x # "" /\ SkipDigits[x, 1] > Len(x)

\* the state right after download_txt serialized the stored list
Serialized == phase = 2 /\ pc = "split"

(***************************************************************************)
(* C10 as claimed -- a non-empty numeric answer gives exactly one line     *)
(* `Correct option:-<letter>` whose letter is one of a..e, the letter of   *)
(* the slot the answer indexes; a non-empty answer that is not numeric is  *)
(* emitted unchanged; an empty answer gives no such line.                  *)
(***************************************************************************)
C10_AnswerLine ==
    Serialized
      => \A i \in 1..Len(first) :
            LET out == EmittedFor(SplitNl[txt], i)
                ans == first[i].answer
            IN  /\ ans = "" => AnswerLinesIn(out) = {}
                /\ ans # "" => Cardinality(AnswerLinesIn(out)) = 1
                /\ IsDigits(ans)
                     => \E k \in 1..5 :
                           /\ DigitsValue(ans, 0) = k
                           /\ \E j \in AnswerLinesIn(out) :
                                 out[j] = "Correct option:-" \o SubSeq("abcde", k, k)
                /\ (ans # "" /\ ~IsDigits(ans))
                     => \E j \in AnswerLinesIn(out) :
                           out[j] = "Correct option:-" \o ans

(***************************************************************************)
(* C10, amended -- a non-empty answer gives exactly one line               *)
(* `Correct option:-<x>` and an empty answer none.  When int(answer) is n  *)
(* in 1..5, x is the letter a..e of slot n; for any other n that chr(96+n) *)
(* takes, x is the character chr(96 + n), which is no letter of a..e; when *)
(* int(answer) raises, x is the answer unchanged.                          *)
(***************************************************************************)
C10_AnswerLineByInt ==
    Serialized
      => \A i \in 1..Len(first) :
            LET out == EmittedFor(SplitNl[txt], i)
                ans == first[i].answer
                n == PyInt(ans).v
                x == IF ~PyInt(ans).ok \/ 96 + n < 0 \/ 96 + n > MaxCodePoint
                     THEN ans
                     ELSE IF n \in 1..5 THEN SubSeq("abcde", n, n)
                     ELSE chr(96 + n)
            IN  /\ ans = "" => AnswerLinesIn(out) = {}
                /\ ans # ""
                     => /\ Cardinality(AnswerLinesIn(out)) = 1
                        /\ \A j \in AnswerLinesIn(out) :
                              out[j] = "Correct option:-" \o x
                /\ (PyInt(ans).ok /\ n \notin 1..5 /\ 96 + n >= 0
                      /\ 96 + n <= MaxCodePoint)
                     => x \notin {"a", "b", "c", "d", "e"}

\* a stored list with a numeric answer in 1..5 and an answer that is a letter
\* has been serialized
C10_Witness ==
    /\ Serialized
    /\ Len(first) = 2
    /\ first[1].answer = "2"
    /\ first[2].answer = "b"
    /\ EmittedFor(SplitNl[txt], 1)[4] = "Correct option:-b"
    /\ EmittedFor(SplitNl[txt], 2)[3] = "Correct option:-b"

(***************************************************************************)
(* Requests, as the claims about upload speak of them                      *)
(***************************************************************************)
\* a name that ends in none of .txt, .html, .htm once lower-cased
EndsInNone(filename) ==
    /\ ~EndsWith(LowerStr(filename), ".txt")
    /\ ~EndsWith(LowerStr(filename), ".html")
    /\ ~EndsWith(LowerStr(filename), ".htm")

\* the parts of a request the handler takes as files
RECURSIVE FileParts(_)
FileParts(parts) ==
    IF parts = <<>> THEN <<>>
    ELSE (IF Head(parts).key = "file" \/ StartsWith(Head(parts).key, "file_")
          THEN <<Head(parts)>> ELSE <<>>) \o FileParts(Tail(parts))

\* the part the handler has just taken
LastPart == request[Len(request)]

\* the response is one of the two unsupported-file-type errors
UnsupportedError(r) ==
    /\ r.status = 400
    /\ StartsWith(r.error, "Unsupported file type")

\* the questions qs, each with the given section
WithSection(qs, label) ==
    [i \in 1..Len(qs) |-> [qs[i] EXCEPT !.section = label]]

RECURSIVE Concatenation(_, _)
\* the parse results of the file parts, in order, each under the label of
\* its file: as supplied (trim = FALSE) or stripped (trim = TRUE)
Concatenation(parts, trim) ==
    IF parts = <<>> THEN <<>>
    ELSE WithSection(ParseUpload(Head(parts).file),
                     IF trim THEN strip(Head(parts).section)
                     ELSE Head(parts).section)
           \o Concatenation(Tail(parts), trim)

\* the extension test has just been reached by a file with such a name: the
\* file of a topic request, or a file under a file_ key whose section label
\* is not blank
ReachedUnsupported ==
    /\ request # <<>>
    /\ FileParts(<<LastPart>>) # <<>>
    /\ LastPart.file.filename # ""
    /\ quiz_type = "full" => strip(LastPart.section) # ""
    /\ EndsInNone(LastPart.file.filename)

\* a full mock request has been answered with the id of its entry
StoredFull ==
    /\ handler = "responded"
    /\ quiz_type = "full"
    /\ response.status = 200

(***************************************************************************)
(* C7 as claimed -- a request whose file has a name that ends in none of   *)
(* .txt, .html, .htm is answered with the unsupported-file-type error and  *)
(* no parser has been invoked at any point in the request.  (That no entry *)
(* is added is part of the amended statement below, where it holds.)       *)
(***************************************************************************)
C7_NoParserInvoked ==
    (handler = "responded" /\ ReachedUnsupported)
      => /\ UnsupportedError(response)
         /\ parsed = <<>>

(***************************************************************************)
(* C7, amended -- when the extension test of upload reaches a file whose   *)
(* lower-cased name ends in none of .txt, .html, .htm (the file of a topic *)
(* request; in a full mock request a file under a file_ key with a         *)
(* non-blank section label, no earlier file having ended the request), the *)
(* request is answered 400 with the unsupported-file-type error, no parser *)
(* is invoked on that file, and no entry is added to TEMP_QUIZ_DATA.  In a *)
(* topic request no parser has been invoked at all; in a full mock request *)
(* every file iterated before it has been parsed already.  The error is    *)
(* returned in no other case.                                              *)
(***************************************************************************)
C7_UnsupportedFile ==
    /\ [](handler = "responded"
            => /\ ReachedUnsupported <=> UnsupportedError(response)
               /\ ReachedUnsupported
                    => /\ response.status = 400
                       /\ \A i \in 1..Len(parsed) : ~EndsInNone(parsed[i].filename)
                       /\ quiz_type = "topic" => parsed = <<>>
                       /\ quiz_type = "full"
                            => Len(parsed) = Len(FileParts(request)) - 1)
    /\ [][(handler' = "responded" /\ UnsupportedError(response'))
            => TEMP_QUIZ_DATA' = TEMP_QUIZ_DATA]_vars

\* a full mock request whose first file was parsed and whose second file has
\* an unsupported name
C7_Witness ==
    /\ handler = "responded"
    /\ quiz_type = "full"
    /\ Len(request) = 2
    /\ request[1].file.filename = "a.txt"
    /\ request[2].file.filename = "c.pdf"
    /\ response = Error(400, "Unsupported file type for section GK. Use .txt or .html")
    /\ parsed = <<[filename |-> "a.txt", parser |-> "parse_txt_file"]>>
    /\ TEMP_QUIZ_DATA = <<>>

(***************************************************************************)
(* C8 as claimed -- in the entry of a full mock request, the stored list   *)
(* is the concatenation of the parse results of the files in the order     *)
(* they are iterated, every question under the section label supplied for  *)
(* its file.                                                               *)
(***************************************************************************)
C8_SectionAsSupplied ==
    StoredFull
      => TEMP_QUIZ_DATA[response.quiz_id].questions
           = Concatenation(FileParts(request), FALSE)

(***************************************************************************)
(* C8, amended -- in the entry of a full mock request, the stored list is  *)
(* the concatenation of the parse results of the files in the order they   *)
(* are iterated, every question under the section label supplied for its   *)
(* file with leading and trailing whitespace stripped; no question has an  *)
(* empty section, and sections lists the stripped labels in that order.    *)
(***************************************************************************)
C8_SectionStripped ==
    StoredFull
      => LET entry == TEMP_QUIZ_DATA[response.quiz_id]
             parts == FileParts(request)
         IN  /\ entry.questions = Concatenation(parts, TRUE)
             /\ \A i \in 1..Len(entry.questions) : entry.questions[i].section # ""
             /\ entry.sections = [i \in 1..Len(parts) |-> strip(parts[i].section)]

\* two files of different parsers under different labels, one label with
\* surrounding whitespace
C8_Witness ==
    /\ StoredFull
    /\ Len(request) = 2
    /\ request[1] = Part("file_1", TxtUpload, "GK")
    /\ request[2] = Part("file_2", HtmUpload, " Math ")
    /\ Len(TEMP_QUIZ_DATA[response.quiz_id].questions) = 3
    /\ TEMP_QUIZ_DATA[response.quiz_id].questions[2].section = "GK"
    /\ TEMP_QUIZ_DATA[response.quiz_id].questions[3].section = "Math"
    /\ TEMP_QUIZ_DATA[response.quiz_id].questions[3].question = "T1"

\* the option slots of a question that hold a text
FilledSlots(q) == { k \in 1..MaxOptions : q[OptionKey(k)] # "" }

\* the lines of the serialized text
OutLines == SplitNl[txt]

(***************************************************************************)
(* C11 -- serializer structure.  For the list serialized, questions_to_txt *)
(* emits per question, in input order: one header line numbered by the     *)
(* 1-based position in the list; one `<letter>) text` line for each        *)
(* non-empty option slot, in slot order, the letter fixed by the slot      *)
(* position; the answer line exactly when the answer is non-empty; exactly *)
(* one ex: line, the placeholder when solution_text is empty; and exactly  *)
(* one blank line after each question, so that consecutive questions are   *)
(* separated by exactly one blank line.                                    *)
(***************************************************************************)
C11_SerializerStructure ==
    Serialized
      => /\ \A i \in 1..Len(first) :
              LET out == EmittedFor(OutLines, i)
                  q == first[i]
                  n == Cardinality(FilledSlots(q))
                  a == IF q.answer # "" THEN 1 ELSE 0
              IN  /\ Len(out) = n + a + 2
                  /\ out[1] = IntToStr(i) \o ". " \o strip_html(q.question)
                  /\ \A k \in FilledSlots(q) :
                        out[1 + Cardinality({ j \in FilledSlots(q) : j <= k })]
                          = SubSeq("abcde", k, k) \o ") "
                              \o strip_html(q[OptionKey(k)])
                  /\ a = 1 => StartsWith(out[n + 2], "Correct option:-")
                  /\ StartsWith(out[n + a + 2], "ex: ")
                  /\ q.solution_text = ""
                       => out[n + a + 2] = "ex: No explanation provided."
                  /\ strip_html(q.solution_text) # ""
                       => out[n + a + 2] = "ex: " \o strip_html(q.solution_text)
         /\ Cardinality({ j \in 1..Len(OutLines) : OutLines[j] = "" }) = Len(first)
         /\ \A j \in 1..Len(OutLines) :
               OutLines[j] = "" => (j > 1 /\ OutLines[j - 1] # "")

\* two questions were serialized, the first with its only option in slot 3
\* and with an answer, the second numbered 2
C11_Witness ==
    /\ Serialized
    /\ Len(first) = 2
    /\ FilledSlots(first[1]) = {3}
    /\ first[1].solution_text = ""
    /\ EmittedFor(OutLines, 1) =
         <<"1. ", "c) Z", "Correct option:-b", "ex: No explanation provided.">>
    /\ EmittedFor(OutLines, 2)[1] = "2. Q1"

\* what one block of the segmenter contributes to the result, from the block
\* alone
BlockResult(block) ==
    LET ls == BlockLines(block)
        q == ParseBlock(ls).question
    IN  IF strip(block) = "" \/ Len(ls) < MinLines THEN <<>>
        ELSE IF q.question # "" /\ (q.option_1 # "" \/ q.option_2 # "")
        THEN <<q>>
        ELSE <<>>

RECURSIVE BlockResults(_, _)
\* the contributions of the first n blocks, in order
BlockResults(bs, n) ==
    IF n = 0 THEN <<>> ELSE BlockResults(bs, n - 1) \o BlockResult(bs[n])

RECURSIVE LongBlocks(_)
LongBlocks(bs) ==
    IF Len(bs) = 0 THEN <<>>
    ELSE IF Len(BlockLines(bs[1])) >= MinLines
    THEN <<bs[1]>> \o LongBlocks(Tail(bs))
    ELSE LongBlocks(Tail(bs))

\* the question a block would give were it parsed, whatever its length
WouldGive(block) ==
    LET q == ParseBlock(BlockLines(block)).question
    IN  IF Retained(q) THEN <<q>> ELSE <<>>

RECURSIVE GivenBy(_)
GivenBy(bs) ==
    IF Len(bs) = 0 THEN <<>> ELSE WouldGive(bs[1]) \o GivenBy(Tail(bs))

(***************************************************************************)
(* C13 -- blocks with fewer than 3 non-blank lines never contribute.  The   *)
(* block loop starts parsing a block only when it has at least MinLines     *)
(* lines, and the list parse_txt_file returns is what the blocks of at      *)
(* least MinLines lines give, the shorter blocks left out, whatever they    *)
(* hold.                                                                    *)
(***************************************************************************)
C13_ShortBlocks ==
    /\ [](pc = "return" /\ (path = "txt" \/ phase = 2)
            => questions = GivenBy(LongBlocks(blocks)))
    /\ [](pc \in {"header", "question_text", "options", "answer", "retain"}
            => Len(lines) >= MinLines)
    /\ [][SkipBlock => (questions' = questions /\ pc' = "block")]_vars

\* the parser returned one question from a text whose first block, a header
\* and an option line, would have given a question of its own
C13_Witness ==
    /\ pc = "return"
    /\ path = "txt"
    /\ phase = 1
    /\ \E i \in 1..Len(blocks) :
          /\ BlockLines(blocks[i]) = <<"1. Q", "a) X">>
          /\ WouldGive(blocks[i]) # <<>>
    /\ Len(questions) = 1
    /\ questions[1].question = "R"


\* the lines after the question text that name an answer letter
AfterQuestion ==
    { k \in (Len(question_lines) + 1)..Len(lines) : AnswerLetter(lines[k]) # "" }

(***************************************************************************)
(* C14 -- uniform answer-marker recognition.  As claimed: every line after  *)
(* the question text that names an answer letter in an accepted dialect     *)
(* (the colon-less Answer- x among them) ends the options state, so the     *)
(* options cursor has not passed it, no option text holds it, and the       *)
(* answer of the block is the mapping of the letter of the last such line.  *)
(***************************************************************************)
C14_MarkerUniform ==
    (pc = "retain" /\ AfterQuestion # {})
      => /\ \A k \in AfterQuestion :
               /\ OptionsEnd(lines) <= k - 1
               /\ \A n \in 1..MaxOptions :
                     question[OptionKey(n)] # lines[k - 1] \o "<br>" \o lines[k]
         /\ question.answer =
              LetterIndex(AnswerLetter(lines[LastOf(AfterQuestion)]))


\* the options state is over: the cap, the end of the block, or a line that
\* begins with Correct, Answer: or ex:
OptionsOver ==
    \/ option_count = MaxOptions
    \/ current_line = Len(lines)
    \/ StopLine(lines[current_line + 1])

\* the slots other than slot n keep their text over the step
OtherSlotsKept(n) ==
    \A m \in 1..MaxOptions : m # n => question'[OptionKey(m)] = question[OptionKey(m)]

(***************************************************************************)
(* C15 -- bounds of the options state.  At most MaxOptions slots are        *)
(* filled and the filled slots are exactly option_1..option_count; an       *)
(* iteration on an option line fills the next slot with the line, or with   *)
(* the line and the one line after it when that line is no option marker    *)
(* and begins with none of Correct, Answer:, ex:, and passes as many lines; *)
(* an iteration on any other line passes that line and fills nothing; the   *)
(* state is left exactly when the cap is reached, the lines are exhausted   *)
(* or the current line begins with Correct, Answer: or ex:.                 *)
(***************************************************************************)
C15_OptionsBounds ==
    /\ [](pc \in {"options", "answer", "retain"}
            => /\ option_count <= MaxOptions
               /\ \A n \in 1..MaxOptions :
                     (question[OptionKey(n)] # "") <=> (n <= option_count))
    /\ [](pc = "options" => (OptionsOver <=> ~ENABLED Option))
    /\ [][EndOptions => OptionsOver]_vars
    /\ [][Option =>
            LET line == lines[current_line + 1]
                slot == option_count + 1
            IN  IF option_pattern(line)
                THEN /\ option_count' = slot
                     /\ OtherSlotsKept(slot)
                     /\ \/ /\ current_line' = current_line + 1
                           /\ question'[OptionKey(slot)] = line
                           /\ current_line + 1 < Len(lines)
                                => \/ option_pattern(lines[current_line + 2])
                                   \/ StopLine(lines[current_line + 2])
                        \/ /\ current_line' = current_line + 2
                           /\ current_line + 2 <= Len(lines)
                           /\ ~option_pattern(lines[current_line + 2])
                           /\ ~StopLine(lines[current_line + 2])
                           /\ question'[OptionKey(slot)] =
                                line \o "<br>" \o lines[current_line + 2]
                ELSE /\ current_line' = current_line + 1
                     /\ option_count' = option_count
                     /\ question' = question]_vars

\* a block whose first option absorbed one continuation line, whose next line
\* was passed without filling a slot, and whose fourth line filled slot 2
C15_Witness ==
    /\ pc = "retain"
    /\ lines = <<"a) X", "Hindi", "Hindi", "(b) Y">>
    /\ option_count = 2
    /\ question.option_1 = "a) X<br>Hindi"
    /\ question.option_2 = "(b) Y"
    /\ question.option_3 = ""


\* the number of ex: lines among the first k lines of the block
ExCount(k) == Cardinality({ j \in 1..k : ExLine(lines[j]) })

RECURSIVE ExJoined(_)
\* the texts of the ex: lines among the first k lines, joined by <br>
ExJoined(k) ==
    IF k = 0 THEN ""
    ELSE IF ~ExLine(lines[k]) THEN ExJoined(k - 1)
    ELSE IF ExCount(k - 1) = 0 THEN ExText(lines[k])
    ELSE ExJoined(k - 1) \o "<br>" \o ExText(lines[k])

(***************************************************************************)
(* C16 -- explanation scan independence.  When the block has been parsed,   *)
(* solution_text is the <br>-join, in block order, of the texts of all the  *)
(* lines of the block that begin with ex: (any case), prefix removed,       *)
(* wherever they sit and wherever the option and answer cursors stopped; it *)
(* is empty when the block has no such line, and empty until the scan runs. *)
(***************************************************************************)
C16_ExplanationScan ==
    /\ [](pc = "retain" => question.solution_text = ExJoined(Len(lines)))
    /\ [](pc = "retain" /\ ExCount(Len(lines)) = 0 => question.solution_text = "")
    /\ [](pc \in {"header", "question_text", "options", "answer"}
            => question.solution_text = "")
    /\ [][Explanation => <<lines, current_line, option_count>>'
                           = <<lines, current_line, option_count>>]_vars

\* an ex: line ahead of the options (taken into the question text) and one
\* after the answer line: both are in solution_text, in block order
C16_Witness ==
    /\ pc = "retain"
    /\ lines = <<"ex: E", "a) X", "Answer: (c)", "ex: E">>
    /\ question.question = "ex: E"
    /\ question.answer = "3"
    /\ question.solution_text = "E<br>E"


\* the step ends an upload request with a response
UploadResponds ==
    /\ UploadTopic \/ UploadFile \/ UploadStore
    /\ handler' = "responded"

\* the step adds one entry under an id the store did not have, with a
\* non-empty list, and keeps every entry the store had
AddsOneEntry ==
    \E quiz_id \in DOMAIN TEMP_QUIZ_DATA' \ DOMAIN TEMP_QUIZ_DATA :
        /\ DOMAIN TEMP_QUIZ_DATA' = DOMAIN TEMP_QUIZ_DATA \cup {quiz_id}
        /\ response'.quiz_id = quiz_id
        /\ TEMP_QUIZ_DATA'[quiz_id].questions # <<>>
        /\ \A k \in DOMAIN TEMP_QUIZ_DATA : TEMP_QUIZ_DATA'[k] = TEMP_QUIZ_DATA[k]

KeepsEntries ==
    \A k \in DOMAIN TEMP_QUIZ_DATA :
        /\ k \in DOMAIN TEMP_QUIZ_DATA'
        /\ TEMP_QUIZ_DATA'[k] = TEMP_QUIZ_DATA[k]

\* thread t serves a preview or a download_txt
Reads(t) == threads[t].op \in {"preview", "download_txt"}

ValidImage(file) == file.present /\ StartsWith(file.mimetype, "image/")

(***************************************************************************)
(* C20 -- upload_image status.  As claimed: a missing or non-image part is  *)
(* answered 400; otherwise the answer is 500 when process_image returned    *)
(* None, and carries the base64 payload with status 200 when it returned    *)
(* the data URL.                                                            *)
(***************************************************************************)
C20_ImageStatus ==
    \A t \in Threads :
        (threads[t].op = "upload_image" /\ threads[t].at = "responded")
          => LET file == threads[t].data
                 r == threads[t].response
             IN  IF ~ValidImage(file) THEN r.status = 400
                 ELSE IF process_image(file) = None THEN r.status = 500
                 ELSE /\ r.status = 200
                      /\ r.base64 = process_image(file).str


\* the grammar whose elements are being mapped
Grammar == IF pc = "map_A" THEN "A" ELSE "B"

\* the step maps an element that raises
FailingStep ==
    /\ MapQuestions \/ MapQuizData
    /\ Raises(Grammar, qlist[q_index + 1])

(***************************************************************************)
(* C19 -- all-or-nothing per grammar.  While a grammar is mapped, `result`  *)
(* holds the mapped elements of that grammar only, one for each element     *)
(* passed; a step on an element that raises returns nothing and leaves the  *)
(* grammar, and the list kept so far is never returned; a list is returned  *)
(* only when every element of the grammar has been mapped, so what          *)
(* parse_html_file returns is the whole mapped list of one grammar or the   *)
(* empty list.                                                              *)
(***************************************************************************)
C19_AllOrNothing ==
    /\ [](pc \in {"map_A", "map_B"}
            => result = Mapped(Grammar, SubSeq(qlist, 1, q_index)))
    /\ [][FailingStep => (questions' = questions /\ pc' \notin {pc, "return"})]_vars
    /\ [][ReturnResult => (MapsWell(Grammar, qlist)
                             /\ questions' = Mapped(Grammar, qlist))]_vars
    /\ []((path = "html" /\ phase = 1 /\ pc = "return")
            => \/ questions = <<>>
               \/ /\ SucceedsA(content)
                  /\ questions = Mapped("A", content.questions_src.value.items)
               \/ /\ SucceedsB(content)
                  /\ questions =
                       Mapped("B", QuizDataList(content.quizData_src.value).items))

\* both grammars were found and decoded, each mapped its first element and
\* failed on a later one: the empty list was returned
C19_Witness ==
    /\ path = "html"
    /\ phase = 1
    /\ pc = "return"
    /\ content.questions_src.found
    /\ content.questions_src.decodes
    /\ Len(content.questions_src.value.items) >= 2
    /\ ~Raises("A", content.questions_src.value.items[1])
    /\ ~SucceedsA(content)
    /\ content.quizData_src.found
    /\ content.quizData_src.decodes
    /\ Iterable(QuizDataList(content.quizData_src.value))
    /\ Len(QuizDataList(content.quizData_src.value).items) >= 2
    /\ ~Raises("B", QuizDataList(content.quizData_src.value).items[1])
    /\ ~SucceedsB(content)
    /\ questions = <<>>

=============================================================================
